---------------------------- MODULE Spec2Model ----------------------------
(***************************************************************************)
(* Model of src/app.py: MultiSymbolAutoTrader, the laddered long-only      *)
(* futures engine.  The exchange (ccxt) is the environment.                *)
(*                                                                         *)
(* Units.  Python floats are modelled by exact fixed-point integers:       *)
(*   prices      in 1/PriceScale  USDT   (1e-4 USDT)                       *)
(*   ratios      in 1/RatioScale  percent (1e-4 %)                         *)
(*   values      in 1/ValueScale  USDT   (1e-6 USDT)                       *)
(*   quantities  as a pair [i, f]: i whole contracts and f the fraction in *)
(*               units of 10^-AmountDecimals, so that round(x, 8) is exact *)
(* Optional values (Python None) are sequences: <<>> is None, <<v>> is v.  *)
(***************************************************************************)
EXTENDS Integers, Sequences, FiniteSets, TLC

VARIABLES
    settings,        \* self.settings (selected_exchange, symbols, ratios) and the market metadata
    symbol_states,   \* self.symbol_states: symbol -> state record
    exchange,        \* the exchange account: symbol -> [position, orders, filled]
    now,             \* datetime.now(), in seconds
    poll,            \* record of the last process_symbol call: its inputs and the exchange calls it made
    reported,        \* symbol -> what the position queries have reported to the engine so far
    run,             \* the main loop: the balance fetched for this cycle and the symbols processed in it
    call             \* the last direct call of a calculation and its result

vars == <<settings, symbol_states, exchange, now, poll, reported, run, call>>

-----------------------------------------------------------------------------
(* e's value, handed on to Rest: the statements of a method follow one another *)
Then(e, Rest(_)) == CHOOSE r \in {Rest(v) : v \in {e}} : TRUE

(* Optional values *)
None == <<>>
Some(v) == <<v>>
IsNone(x) == x = <<>>
IsSome(x) == x # <<>>
Val(x) == x[1]

-----------------------------------------------------------------------------
(* Fixed-point arithmetic *)
Pow10(k) == <<1, 10, 100, 1000, 10000, 100000, 1000000, 10000000, 100000000>>[k + 1]

PriceScale == Pow10(4)
RatioScale == Pow10(4)
ValueScale == Pow10(6)
AmountDecimals == 8     \* round(contracts, 8)

AmtScale == Pow10(AmountDecimals)

Amt(i, f) == [i |-> i, f |-> f]
AmtZero == Amt(0, 0)
AmtInt(n) == Amt(n, 0)
AmtLT(a, b) == a.i < b.i \/ (a.i = b.i /\ a.f < b.f)
AmtLE(a, b) == a = b \/ AmtLT(a, b)
AmtMax(a, b) == IF AmtLT(a, b) THEN b ELSE a
AmtAdd(a, b) ==
    IF a.f + b.f >= AmtScale THEN Amt(a.i + b.i + 1, a.f + b.f - AmtScale)
    ELSE Amt(a.i + b.i, a.f + b.f)
\* a - b for b <= a
AmtSub(a, b) ==
    IF a.f >= b.f THEN Amt(a.i - b.i, a.f - b.f)
    ELSE Amt(a.i - b.i - 1, a.f + AmtScale - b.f)
\* abs(a - b)
AmtAbsDiff(a, b) == IF AmtLT(a, b) THEN AmtSub(b, a) ELSE AmtSub(a, b)

\* k further decimal digits of rem/den: <<digits, remainder>>
RECURSIVE LongDiv(_, _, _, _)
LongDiv(acc, rem, den, k) ==
    IF k = 0 THEN <<acc, rem>>
    ELSE Then(<<acc * 10 + ((rem * 10) \div den), (rem * 10) % den, k - 1>>, LAMBDA s :
              LongDiv(s[1], s[2], den, s[3]))

\* round(num / den, d) of Python 3 (round half to even), as a quantity; 0 <= d <= 8
RoundQ(num, den, d) ==
    Then(LongDiv(0, num % den, den, d), LAMBDA ld :
        LET q    == num \div den
            fr   == ld[1]
            rem  == ld[2]
            last == IF d = 0 THEN q ELSE fr
            up   == 2 * rem > den \/ (2 * rem = den /\ last % 2 = 1)
            fr2  == IF up THEN fr + 1 ELSE fr
            unit == Pow10(AmountDecimals - d)
        IN  IF fr2 = Pow10(d) THEN Amt(q + 1, 0) ELSE Amt(q, fr2 * unit))

\* round(a, d) of a quantity already held to 8 decimals
RoundAmt(a, d) ==
    LET unit == Pow10(AmountDecimals - d)
        lo   == a.f % unit
        kept == a.f \div unit
        last == IF d = 0 THEN a.i ELSE kept
        up   == 2 * lo > unit \/ (2 * lo = unit /\ last % 2 = 1)
        k2   == IF up THEN kept + 1 ELSE kept
    IN  IF k2 = Pow10(d) THEN Amt(a.i + 1, 0) ELSE Amt(a.i, k2 * unit)

\* a price computed in floating point, held to the price grid (half up)
RoundPrice(num, den) == (2 * num + den) \div (2 * den)


-----------------------------------------------------------------------------
(* Configuration *)
Symbols == {"A", "B"}
Exchanges == {"okx", "binance", "bybit"}

\* exchange.market(symbol): contractSize, precision.amount, limits.amount.min
PrecInt(d) == [kind |-> "int", v |-> d]
PrecOther == [kind |-> "other", v |-> 0]      \* a tick size (float) or another non-int
PrecAbsent == [kind |-> "absent", v |-> 0]
MinValue(a) == [kind |-> "value", v |-> a]
MinNull == [kind |-> "null", v |-> AmtZero]   \* limits.amount.min is None
MinAbsent == [kind |-> "absent", v |-> AmtZero]
Market(cs, prec, min) == [contractSize |-> cs, precision |-> prec, min |-> min]

ActiveSymbols == settings.symbols
MarketOf(symbol) == settings.market[symbol]

-----------------------------------------------------------------------------
(* calculate_levels *)
DistScale == Pow10(1)    \* distances are held in tenths of a percent

base_levels ==
    << [distance |->   0, ratio |->  50000],
       [distance |->  15, ratio |->  50000],
       [distance |->  30, ratio |->  75000],
       [distance |->  50, ratio |-> 100000],
       [distance |->  80, ratio |-> 125000],
       [distance |-> 120, ratio |-> 150000],
       [distance |-> 170, ratio |-> 200000],
       [distance |-> 230, ratio |-> 250000],
       [distance |-> 300, ratio |-> 300000],
       [distance |-> 380, ratio |-> 400000] >>

RECURSIVE SumRatio(_, _)
SumRatio(levels, n) == IF n = 0 THEN 0 ELSE levels[n].ratio + SumRatio(levels, n - 1)

base_total_ratio == SumRatio(base_levels, Len(base_levels))

\* the ratio taken as a percentage of the base ratio
TimesMultiplierPercent(x, user_ratio) == (x * user_ratio) \div 100

\* x * (user_ratio / base_total_ratio), user_ratio in whole percent
TimesMultiplier(x, user_ratio) == (x * user_ratio) \div (base_total_ratio \div RatioScale)

calculate_levels(user_ratio) ==
    [n \in 1..Len(base_levels) |->
        [distance |-> base_levels[n].distance,
         ratio    |-> TimesMultiplier(base_levels[n].ratio, user_ratio)]]

\* self.settings['levels'], set once by the constructor
Levels == calculate_levels(settings.capital_usage_ratio)

-----------------------------------------------------------------------------
(* calculate_order_amount *)
DefaultMinAmount == Amt(0, 100000)     \* 0.001
CapitalBase == 170

active_symbols_count == Cardinality(ActiveSymbols)

\* position_value of calculate_order_amount, in 1/ValueScale USDT:
\* total_balance * (ratio / 100 / active_symbols_count * (capital_usage_ratio / 170))
position_value(level, total_balance) ==
    (total_balance * ((Levels[level].ratio * settings.capital_usage_ratio) \div CapitalBase))
        \div active_symbols_count

\* the main path without the clamp to the minimum
OrderAmountFromMarketUnclamped(level, price, total_balance, mk) ==
    IF mk.precision.kind = "int"
    THEN RoundQ(position_value(level, total_balance),
                price * mk.contractSize * (ValueScale \div PriceScale), mk.precision.v)
    ELSE RoundQ(position_value(level, total_balance),
                price * mk.contractSize * (ValueScale \div PriceScale), AmountDecimals)

\* the main path (the try block), for market metadata mk
OrderAmountFromMarket(level, price, total_balance, mk) ==
    LET den       == price * mk.contractSize * (ValueScale \div PriceScale)
        pv        == position_value(level, total_balance)
        min_amount == IF mk.min.kind = "value"
                      THEN AmtMax(DefaultMinAmount, mk.min.v)
                      ELSE DefaultMinAmount
    IN  Then(IF mk.precision.kind = "int"
             THEN RoundQ(pv, den, mk.precision.v)
             ELSE RoundQ(pv, den, AmountDecimals), LAMBDA contracts :
            IF AmtLT(contracts, min_amount) THEN min_amount ELSE contracts)

\* the except block without its floor of 0.001
OrderAmountFallbackUnfloored(level, price, total_balance) ==
    RoundQ(position_value(level, total_balance),
           price * (ValueScale \div PriceScale), AmountDecimals)

\* the except block: position_value / price, 8 decimals, at least 0.001
OrderAmountFallback(level, price, total_balance) ==
    Then(RoundQ(position_value(level, total_balance),
                price * (ValueScale \div PriceScale), AmountDecimals), LAMBDA amount :
         AmtMax(amount, DefaultMinAmount))

\* market(symbol) raising, or max(0.001, None) raising, leads to the except block
calculate_order_amount(level, price, total_balance, symbol) ==
    LET m == MarketOf(symbol)
    IN  IF IsNone(m) \/ Val(m).min.kind = "null"
        THEN OrderAmountFallback(level, price, total_balance)
        ELSE OrderAmountFromMarket(level, price, total_balance, Val(m))

-----------------------------------------------------------------------------
(* Values of the program and of the exchange *)
Position(amount, entry_price) ==
    [side |-> "long", amount |-> amount, entry_price |-> entry_price]

\* an open order; level is the rung (or follow-up number) it was placed for
Order(id, side, price, amount, reduce_only, level) ==
    [id |-> id, side |-> side, price |-> price, amount |-> amount,
     reduce_only |-> reduce_only, level |-> level]

\* a symbol's entry of self.symbol_states as the constructor builds it
\* ('balance' and 'current_orders' are written but never read and are left out)
InitialSymbolState ==
    [current_position   |-> None,
     order_level        |-> 0,
     last_close_time    |-> None,
     is_first_entry     |-> TRUE,
     is_active          |-> TRUE,
     just_entered       |-> FALSE,
     tp_order_id        |-> None,
     current_tp_price   |-> None,
     current_tp_type    |-> None,
     cumulative_amounts |-> <<>>]

Account(last) == [last |-> last, position |-> None, orders |-> {}, filled |-> {}]
InitialReport == [open |-> FALSE, close_time |-> None, setups |-> 0]

\* one exchange call or bookkeeping step of a handler, as recorded in the poll
Ev(op, side, id, level, price, amount, ok) ==
    [op |-> op, side |-> side, id |-> id, level |-> level, price |-> price,
     amount |-> amount, ok |-> ok]

-----------------------------------------------------------------------------
(* The machine a handler runs on: m.st is self.symbol_states, m.ex the     *)
(* exchange, m.log the calls made so far, m.ret the last return value and  *)
(* m.faults the exchange calls that fail in this handler run.              *)
Fault(m, f) == f \in m.faults
Logged(m, e) == [m EXCEPT !.log = Append(@, e)]
Ret(m, v) == [m EXCEPT !.ret = v]

OrderIds(S) == {o.id : o \in S}
MinId(S) == CHOOSE i \in S : \A j \in S : i <= j

\* the ids of S in rising order
SeqOfIds(S) ==
    [i \in 1..Cardinality(S) |-> CHOOSE x \in S : Cardinality({y \in S : y < x}) = i - 1]

RecordedTpIds(st) ==
    {Val(st[s].tp_order_id) : s \in {t \in DOMAIN st : IsSome(st[t].tp_order_id)}}

UsedIds(m) ==
    UNION {OrderIds(m.ex[s].orders) \cup m.ex[s].filled : s \in DOMAIN m.ex}
        \cup RecordedTpIds(m.st)

\* the exchange names a new order with an id no live or recorded order has;
\* NthFreshId(m, n) is the n-th id it hands out from now on
NthFreshId(m, n) ==
    Then(UsedIds(m), LAMBDA used :
        CHOOSE c \in 1..(Cardinality(used) + n) :
            c \notin used /\ Cardinality((1..c) \ used) = n)

FreshId(m) == NthFreshId(m, 1)

\* what the position queries have told the engine: a report of no position
\* after a report of an open one is a reported close; setups counts the
\* ladders placed for the position reported open (MaxSetups and more are one)
Report(r, pos, t) ==
    IF IsSome(pos) THEN [r EXCEPT !.open = TRUE]
    ELSE IF r.open THEN [open |-> FALSE, close_time |-> Some(t), setups |-> 0]
    ELSE [r EXCEPT !.setups = 0]

MaxSetups == 2
LadderPlaced(r) == [r EXCEPT !.setups = IF @ < MaxSetups THEN @ + 1 ELSE @]

(* exchange.fetch_ticker *)
exchange_fetch_ticker(m, symbol) ==
    LET ok == ~Fault(m, "ticker")
    IN  Ret(Logged(m, Ev("fetch_ticker", "", 0, 0, m.ex[symbol].last, AmtZero, ok)),
            IF ok THEN Some(m.ex[symbol].last) ELSE None)

(* exchange.cancel_order: raises for an order that is not open *)
CancelSucceeds(m, symbol, id) ==
    LET open == OrderIds(m.ex[symbol].orders)
    IN  /\ id \in open
        /\ ~Fault(m, "cancel")
        /\ ~(Fault(m, "cancel_one") /\ id = MinId(open))

CancelEvent(id, ok) == Ev("cancel_order", "", id, 0, 0, AmtZero, ok)

exchange_cancel_order(m, symbol, id) ==
    LET ok == CancelSucceeds(m, symbol, id)
        m1 == IF ok THEN [m EXCEPT !.ex[symbol].orders = {o \in @ : o.id # id}] ELSE m
    IN  Ret(Logged(m1, CancelEvent(id, ok)), ok)

(* exchange.create_limit_order *)
exchange_create_limit_order(m, symbol, side, amount, price, reduce_only, level, fails) ==
    Then(FreshId(m), LAMBDA id :
        LET m1 == IF fails THEN m
                  ELSE [m EXCEPT !.ex[symbol].orders =
                           @ \cup {Order(id, side, price, amount, reduce_only, level)}]
        IN  Ret(Logged(m1, Ev("create_limit_order", side, IF fails THEN 0 ELSE id, level,
                              price, amount, ~fails)),
                IF fails THEN None ELSE Some(id)))

\* the entry price of a long position after a further buy fills: the
\* exchange's average, taken here as the midpoint of the two prices
AveragedEntry(old_price, fill_price) == RoundPrice(old_price + fill_price, 2)

BoughtInto(position, amount, price) ==
    IF IsNone(position) THEN Some(Position(amount, price))
    ELSE Some(Position(AmtAdd(Val(position).amount, amount),
                       AveragedEntry(Val(position).entry_price, price)))

SoldFrom(position, amount) ==
    IF IsNone(position) \/ AmtLE(Val(position).amount, amount) THEN None
    ELSE Some([Val(position) EXCEPT !.amount = AmtSub(@, amount)])

(* exchange.create_market_order: fills at once at the last price;          *)
(* the exchange rejects a quantity of 0                                    *)
exchange_create_market_order(m, symbol, side, contracts, fails) ==
    Then(FreshId(m), LAMBDA id :
        LET ok == ~fails /\ contracts > 0
            m1 == IF ~ok THEN m
                  ELSE IF side = "buy"
                  THEN [m EXCEPT !.ex[symbol].position =
                                BoughtInto(@, AmtInt(contracts), m.ex[symbol].last)]
                  ELSE [m EXCEPT !.ex[symbol].position = SoldFrom(@, AmtInt(contracts))]
        IN  Ret(Logged(m1, Ev("create_market_order", side, IF ok THEN id ELSE 0, 1,
                              m.ex[symbol].last, AmtInt(contracts), ok)),
                IF ok THEN Some(id) ELSE None))

-----------------------------------------------------------------------------
(* Queries of the engine *)

\* a ticker query that answers with the last known price when the call fails
fetch_ticker_or_last(m, symbol) ==
    Ret(exchange_fetch_ticker(m, symbol), Some(m.ex[symbol].last))

(* fetch_ticker: raises when the exchange call fails *)
fetch_ticker(m, symbol) == exchange_fetch_ticker(m, symbol)

(* fetch_current_position: None when all 5 attempts fail, or when the      *)
(* exchange reports no contracts; the call is recorded with the entry      *)
(* price and the amount it returns                                         *)
fetch_current_position(m, symbol, fails) ==
    LET pos == IF fails THEN None ELSE m.ex[symbol].position
        m1 == IF fails THEN m ELSE [m EXCEPT !.rep[symbol] = Report(@, pos, m.now)]
    IN  Ret(Logged(m1, Ev("fetch_positions", "", 0, 0,
                          IF IsSome(pos) THEN Val(pos).entry_price ELSE 0,
                          IF IsSome(pos) THEN Val(pos).amount ELSE AmtZero, ~fails)), pos)

(* fetch_open_orders: the empty list when the exchange call fails *)
fetch_open_orders(m, symbol, fails) ==
    Ret(Logged(m, Ev("fetch_open_orders", "", 0, 0, 0, AmtZero, ~fails)),
        IF fails THEN {} ELSE m.ex[symbol].orders)

-----------------------------------------------------------------------------
(* cancel_all_orders: one cancel per listed order, a failure is logged and *)
(* the loop goes on                                                        *)
\* the loop that a failed cancel ends
CancelEachUntilFailure(m, symbol, ids) ==
    Then([i \in DOMAIN ids |-> CancelSucceeds(m, symbol, ids[i])], LAMBDA ok :
        LET tried == {i \in DOMAIN ids : \A j \in 1..(i - 1) : ok[j]}
            gone  == {ids[i] : i \in {j \in tried : ok[j]}}
        IN  [m EXCEPT !.ex[symbol].orders = {o \in @ : o.id \notin gone},
                      !.log = @ \o [i \in 1..Cardinality(tried) |->
                                        CancelEvent(ids[i], ok[i])]])

CancelEach(m, symbol, ids) ==
    Then([i \in DOMAIN ids |-> CancelSucceeds(m, symbol, ids[i])], LAMBDA ok :
        LET gone == {ids[i] : i \in {j \in DOMAIN ids : ok[j]}}
        IN  [m EXCEPT !.ex[symbol].orders = {o \in @ : o.id \notin gone},
                      !.log = @ \o [i \in DOMAIN ids |-> CancelEvent(ids[i], ok[i])]])

cancel_all_orders(m, symbol) ==
    Then(fetch_open_orders(m, symbol, Fault(m, "orders_later")), LAMBDA m1 :
        IF m1.ret = {} THEN m1
        ELSE Then(SeqOfIds(OrderIds(m1.ret)), LAMBDA ids : CancelEach(m1, symbol, ids)))

(* cancel_tp_order: the recorded order is forgotten only if the cancel succeeds *)
cancel_tp_order(m, symbol) ==
    IF IsNone(m.st[symbol].tp_order_id) THEN m
    ELSE Then(exchange_cancel_order(m, symbol, Val(m.st[symbol].tp_order_id)), LAMBDA m1 :
            IF m1.ret
            THEN [m1 EXCEPT !.st[symbol].tp_order_id = None,
                            !.st[symbol].current_tp_price = None,
                            !.st[symbol].current_tp_type = None]
            ELSE m1)

-----------------------------------------------------------------------------
(* place_limit_order: reduceOnly is not set (False on Binance); the order  *)
(* the exchange opens under id, or None when create_limit_order raises     *)
LimitFails(m, level) == Fault(m, "limit") \/ (Fault(m, "limit_one") /\ level = 3)

place_limit_order(m, symbol, side, price, amount, level, id) ==
    IF LimitFails(m, level) THEN None
    ELSE Some(Order(id, side, price, amount, FALSE, level))

\* a loop of place_limit_order calls, one per level of DOMAIN price in
\* rising order: price[l] and amount[l] are the arguments of the call for l
PlaceEach(m, symbol, side, price, amount) ==
    Then({l \in DOMAIN price : ~LimitFails(m, l)}, LAMBDA placed :
    Then([l \in placed |-> NthFreshId(m, Cardinality({k \in placed : k <= l}))], LAMBDA id :
        LET first == MinId(DOMAIN price)
            order == {place_limit_order(m, symbol, side, price[l], amount[l], l, id[l]) :
                        l \in placed}
        IN  [m EXCEPT !.ex[symbol].orders = @ \cup {Val(o) : o \in order},
                      !.log = @ \o [i \in 1..Cardinality(DOMAIN price) |->
                                LET l == first + i - 1
                                IN  Ev("create_limit_order", side,
                                       IF l \in placed THEN id[l] ELSE 0, l,
                                       price[l], amount[l], l \in placed)]]))

(* generate_followup_orders *)
FollowupCount == 5

generate_followup_orders(m, symbol, side, initial_amount) ==
    IF settings.selected_exchange = "binance"
    THEN \* exchange.fetch_position: raises, or returns the position
         Then(Logged(m, Ev("fetch_position", "", 0, 0, 0, AmtZero,
                           Fault(m, "fetch_position_returns"))), LAMBDA m1 :
            IF Fault(m, "fetch_position_returns") /\ IsSome(m1.ex[symbol].position)
            THEN Then(exchange_fetch_ticker(m1, symbol), LAMBDA m2 :
                 Then([i \in 1..FollowupCount |->
                         RoundPrice(m2.ex[symbol].last * (100 + i), 100)], LAMBDA price :
                 Then([i \in 1..FollowupCount |->
                         Amt(initial_amount \div 5,
                             (initial_amount % 5) * (AmtScale \div 5))], LAMBDA amount :
                     PlaceEach(m2, symbol, IF side = "buy" THEN "sell" ELSE "buy",
                               price, amount))))
            ELSE m1)
    ELSE \* state.get('position_amount', 0): the key is never set
         m

(* place_market_order *)
MinNotional == 5

\* k with lot_size = 10^-k
LotDigits(lot) == CHOOSE k \in 0..AmountDecimals :
    lot = Amt(1 \div Pow10(k), (AmtScale \div Pow10(k)) % AmtScale)
DefaultLot == Amt(0, AmtScale \div 100)     \* 0.01

\* adjusted_amount of the Binance branch, a whole number of contracts
AdjustedAmount(amount, price, precision, lot_size) ==
    Then(RoundAmt(amount, precision), LAMBDA wanted :
    Then(RoundQ((MinNotional * 11 * PriceScale) \div 10, price, precision), LAMBDA least :
    Then(RoundAmt(AmtMax(wanted, least), LotDigits(lot_size)), LAMBDA onLots :
        IF onLots.i < lot_size.i THEN lot_size.i ELSE onLots.i)))

place_market_order(m, symbol, side, amount) ==
    IF settings.selected_exchange = "binance"
    THEN LET mk == MarketOf(symbol)
         IN  IF IsSome(mk) /\ (Val(mk).precision.kind # "int" \/ Val(mk).min.kind # "value")
             THEN Ret(m, None)      \* KeyError / TypeError before the order
             ELSE LET precision == IF IsSome(mk) THEN Val(mk).precision.v ELSE AmountDecimals
                      lot_size  == IF IsSome(mk) THEN Val(mk).min.v ELSE DefaultLot
                  IN  Then(exchange_fetch_ticker(m, symbol), LAMBDA m1 :
                          IF IsNone(m1.ret) THEN Ret(m1, None)
                          ELSE
                          Then(AdjustedAmount(amount, Val(m1.ret), precision, lot_size),
                               LAMBDA adjusted :
                          Then(exchange_create_market_order(m1, symbol, side, adjusted,
                                                            Fault(m1, "market")), LAMBDA m2 :
                              IF IsNone(m2.ret) THEN m2
                              ELSE Ret(generate_followup_orders(m2, symbol, side, adjusted),
                                       m2.ret))))
    ELSE \* bybit, okx: adjusted_amount is not bound, the NameError is caught
         Ret(m, None)

-----------------------------------------------------------------------------
(* place_tp_order: a reduce-only limit sell; recorded only when placed *)
\* the placement that records the order in the state of every symbol
place_tp_order_every_symbol(m, symbol, tp_price, amount, tp_type) ==
    Then(exchange_create_limit_order(m, symbol, "sell", amount, tp_price, TRUE, 0,
                                     Fault(m, "tp")), LAMBDA m1 :
        IF IsSome(m1.ret)
        THEN [m1 EXCEPT !.st = [t \in DOMAIN @ |->
                                    [@[t] EXCEPT !.tp_order_id = m1.ret,
                                                 !.current_tp_price = Some(tp_price),
                                                 !.current_tp_type = Some(tp_type)]]]
        ELSE m1)

place_tp_order(m, symbol, tp_price, amount, tp_type) ==
    Then(exchange_create_limit_order(m, symbol, "sell", amount, tp_price, TRUE, 0,
                                     Fault(m, "tp")), LAMBDA m1 :
        IF IsSome(m1.ret)
        THEN [m1 EXCEPT !.st[symbol].tp_order_id = m1.ret,
                        !.st[symbol].current_tp_price = Some(tp_price),
                        !.st[symbol].current_tp_type = Some(tp_type)]
        ELSE m1)

(* reset_symbol_state_after_close *)
\* the reset that leaves the cumulative table in place
reset_symbol_state_keeping_table(m, symbol) ==
    Then(cancel_all_orders(m, symbol), LAMBDA m1 :
        [m1 EXCEPT !.st[symbol].last_close_time = Some(m.now),
                   !.st[symbol].is_first_entry = FALSE,
                   !.st[symbol].order_level = 0,
                   !.st[symbol].just_entered = FALSE,
                   !.st[symbol].tp_order_id = None,
                   !.st[symbol].current_tp_price = None,
                   !.st[symbol].current_tp_type = None])

reset_symbol_state_after_close(m, symbol) ==
    Then(cancel_all_orders(m, symbol), LAMBDA m1 :
        [m1 EXCEPT !.st[symbol].last_close_time = Some(m.now),
                   !.st[symbol].is_first_entry = FALSE,
                   !.st[symbol].order_level = 0,
                   !.st[symbol].just_entered = FALSE,
                   !.st[symbol].tp_order_id = None,
                   !.st[symbol].current_tp_price = None,
                   !.st[symbol].current_tp_type = None,
                   !.st[symbol].cumulative_amounts = <<>>])

(* check_tp_execution: exchange.fetch_open_order of the recorded order      *)
(* returns it (open, or closed once filled) or raises                      *)
TpStatus(m, symbol) ==
    LET id     == Val(m.st[symbol].tp_order_id)
        open   == id \in OrderIds(m.ex[symbol].orders)
        filled == id \in m.ex[symbol].filled
    IN  IF Fault(m, "status") \/ (~open /\ ~filled) THEN ""
        ELSE IF open THEN "open" ELSE "closed"

\* the check that takes no status for a fill
check_tp_execution_unless_open(m, symbol, position) ==
    IF IsNone(m.st[symbol].tp_order_id) THEN Ret(m, FALSE)
    ELSE Then(TpStatus(m, symbol), LAMBDA status :
         Then(Logged(m, Ev("fetch_open_order", status, Val(m.st[symbol].tp_order_id),
                           0, 0, AmtZero, status # "")), LAMBDA m1 :
             IF status # ""
             THEN Ret(m1, FALSE)
             ELSE IF IsNone(position)
                  THEN Ret(reset_symbol_state_after_close(m1, symbol), TRUE)
                  ELSE Ret(m1, FALSE)))

\* the check that handles the fill and lets the poll go on
check_tp_execution_going_on(m, symbol, position) ==
    IF IsNone(m.st[symbol].tp_order_id) THEN Ret(m, FALSE)
    ELSE Then(TpStatus(m, symbol), LAMBDA status :
         Then(Logged(m, Ev("fetch_open_order", status, Val(m.st[symbol].tp_order_id),
                           0, 0, AmtZero, status # "")), LAMBDA m1 :
             IF status = "closed" \/ (status = "" /\ IsNone(position))
             THEN Ret(reset_symbol_state_after_close(m1, symbol), FALSE)
             ELSE Ret(m1, FALSE)))

check_tp_execution(m, symbol, position) ==
    IF IsNone(m.st[symbol].tp_order_id) THEN Ret(m, FALSE)
    ELSE Then(TpStatus(m, symbol), LAMBDA status :
         Then(Logged(m, Ev("fetch_open_order", status, Val(m.st[symbol].tp_order_id),
                           0, 0, AmtZero, status # "")), LAMBDA m1 :
             IF status # ""
             THEN IF status = "closed"
                  THEN Ret(reset_symbol_state_after_close(m1, symbol), TRUE)
                  ELSE Ret(m1, FALSE)
             ELSE IF IsNone(position)
                  THEN Ret(reset_symbol_state_after_close(m1, symbol), TRUE)
                  ELSE Ret(m1, FALSE)))

(* check_position_status_change *)
check_position_status_change(m, symbol, prev_position, current_position) ==
    IF IsSome(prev_position) /\ IsNone(current_position)
    THEN Then(cancel_all_orders(m, symbol), LAMBDA m1 :
              Ret(reset_symbol_state_after_close(m1, symbol), TRUE))
    ELSE Ret(m, FALSE)

(* update_tp_order *)
TpEpsilon == PriceScale \div 100     \* 0.01

\* entry_price * (1 + take_profit_percent / 100), take_profit_percent in tenths of a percent
TargetTpPrice(entry_price) ==
    RoundPrice(entry_price * (100 * DistScale + settings.take_profit_percent), 100 * DistScale)

Abs(x) == IF x < 0 THEN -x ELSE x

\* the update that re-issues the order on every poll
update_tp_order_always(m, symbol, position) ==
    IF IsNone(position) \/ Val(position).side # "long" THEN m
    ELSE Then(IF IsSome(m.st[symbol].tp_order_id) THEN cancel_tp_order(m, symbol) ELSE m,
              LAMBDA m1 :
             place_tp_order(m1, symbol, TargetTpPrice(Val(position).entry_price),
                            Val(position).amount, "profit"))

update_tp_order(m, symbol, position) ==
    IF IsNone(position) \/ Val(position).side # "long" THEN m
    ELSE LET state == m.st[symbol]
             target_tp_price == TargetTpPrice(Val(position).entry_price)
             target_tp_type  == "profit"
             current_tp   == state.current_tp_price
             current_type == state.current_tp_type
             price_changed == \/ IsNone(current_tp)
                              \/ Val(current_tp) = 0
                              \/ Abs(Val(current_tp) - target_tp_price) > TpEpsilon
             type_changed == current_type # Some(target_tp_type)
         IN  IF price_changed \/ type_changed
             THEN Then(IF IsSome(state.tp_order_id) THEN cancel_tp_order(m, symbol) ELSE m,
                       LAMBDA m1 :
                      place_tp_order(m1, symbol, target_tp_price, Val(position).amount,
                                     target_tp_type))
             ELSE m

-----------------------------------------------------------------------------
(* place_initial_long_order *)
place_initial_long_order(m, symbol, current_price, total_balance) ==
    Then(calculate_order_amount(1, current_price, total_balance, symbol),
         LAMBDA long_amount :
    Then(place_market_order(m, symbol, "buy", long_amount), LAMBDA m1 :
        Ret(m1, IsSome(m1.ret))))

(* place_all_next_level_orders *)
max_level == IF 10 \in DOMAIN Levels THEN 10 ELSE 9

LadderPrice(entry_price, level) ==
    RoundPrice(entry_price * (100 * DistScale - Levels[level].distance), 100 * DistScale)

place_all_next_level_orders(m, symbol, entry_price, total_balance) ==
    Then([level \in 2..max_level |-> LadderPrice(entry_price, level)], LAMBDA next_price :
    Then([level \in 2..max_level |->
            calculate_order_amount(level, next_price[level], total_balance, symbol)],
         LAMBDA amount :
    Then(PlaceEach(m, symbol, "buy", next_price, amount), LAMBDA m1 :
        [m1 EXCEPT !.st[symbol].order_level = max_level,
                   !.rep[symbol] = LadderPlaced(@)])))

(* calculate_cumulative_amounts: every rung sized at the entry price *)
\* the total taken over the rungs from n on
RECURSIVE SumAmountsFrom(_, _)
SumAmountsFrom(amounts, n) ==
    IF n > Len(amounts) THEN AmtZero
    ELSE Then(SumAmountsFrom(amounts, n + 1), LAMBDA above : AmtAdd(above, amounts[n]))

RECURSIVE SumAmounts(_, _)
SumAmounts(amounts, n) ==
    IF n = 0 THEN AmtZero
    ELSE Then(SumAmounts(amounts, n - 1), LAMBDA below : AmtAdd(below, amounts[n]))

CumulativeTable(symbol, entry_price, total_balance) ==
    Then([level \in DOMAIN Levels |->
            calculate_order_amount(level, entry_price, total_balance, symbol)],
         LAMBDA amounts : [level \in DOMAIN Levels |-> SumAmounts(amounts, level)])

calculate_cumulative_amounts(m, symbol, entry_price, total_balance) ==
    Logged([m EXCEPT !.st[symbol].cumulative_amounts =
                CumulativeTable(symbol, entry_price, total_balance)],
           Ev("calculate_cumulative_amounts", "", 0, 0, entry_price, AmtZero, TRUE))

(* get_current_level_from_position: the table is scanned in rising rung   *)
(* order and a rung replaces the closest so far only if strictly closer    *)
NoneYet == [closest_level |-> 1, min_diff |-> None]     \* min_diff = inf

RECURSIVE ScanLevelsOrEqual(_, _, _)
ScanLevelsOrEqual(cumulative_amounts, position_amount, n) ==
    IF n = 0 THEN NoneYet
    ELSE Then(ScanLevelsOrEqual(cumulative_amounts, position_amount, n - 1), LAMBDA best :
            LET diff == AmtAbsDiff(position_amount, cumulative_amounts[n])
            IN  IF IsNone(best.min_diff) \/ AmtLE(diff, Val(best.min_diff))
                THEN [closest_level |-> n, min_diff |-> Some(diff)]
                ELSE best)

\* the scan in which a rung as close as the closest so far replaces it
get_current_level_last_closest(cumulative_amounts, position_amount) ==
    IF cumulative_amounts = <<>> THEN 1
    ELSE ScanLevelsOrEqual(cumulative_amounts, position_amount,
                           Len(cumulative_amounts)).closest_level

RECURSIVE ScanLevels(_, _, _)
ScanLevels(cumulative_amounts, position_amount, n) ==
    IF n = 0 THEN NoneYet
    ELSE Then(ScanLevels(cumulative_amounts, position_amount, n - 1), LAMBDA best :
            LET diff == AmtAbsDiff(position_amount, cumulative_amounts[n])
            IN  IF IsNone(best.min_diff) \/ AmtLT(diff, Val(best.min_diff))
                THEN [closest_level |-> n, min_diff |-> Some(diff)]
                ELSE best)

get_current_level_from_position(cumulative_amounts, position_amount) ==
    IF cumulative_amounts = <<>> THEN 1
    ELSE ScanLevels(cumulative_amounts, position_amount,
                    Len(cumulative_amounts)).closest_level

(* can_enter_position *)
ReentryWaitSeconds == 60

\* the gate with the comparison off by one: open only after the 60 seconds
can_enter_position_after(state, t) ==
    IF state.is_first_entry THEN TRUE
    ELSE IF IsSome(state.last_close_time)
         THEN t - Val(state.last_close_time) > ReentryWaitSeconds
         ELSE TRUE

can_enter_position(state, t) ==
    IF state.is_first_entry THEN TRUE
    ELSE IF IsSome(state.last_close_time)
         THEN t - Val(state.last_close_time) >= ReentryWaitSeconds
         ELSE TRUE

-----------------------------------------------------------------------------
(* process_symbol *)
EntryRequeries == 3

\* lines 719-727: up to 3 position queries after the market entry
RECURSIVE ConfirmEntry(_, _, _, _)
ConfirmEntry(m, symbol, total_balance, attempts) ==
    IF attempts = 0 THEN m
    ELSE Then(fetch_current_position(m, symbol, Fault(m, "requery")), LAMBDA m1 :
            IF IsSome(m1.ret) /\ Val(m1.ret).side = "long"
            THEN Then(place_all_next_level_orders(m1, symbol, Val(m1.ret).entry_price,
                                                  total_balance), LAMBDA m2 :
                 Then(calculate_cumulative_amounts(m2, symbol, Val(m1.ret).entry_price,
                                                   total_balance), LAMBDA m3 :
                     update_tp_order(m3, symbol, m1.ret)))
            ELSE Then(attempts - 1, LAMBDA left :
                      ConfirmEntry(m1, symbol, total_balance, left)))

\* lines 711-733: no position reported
ProcessFlat(m, symbol, current_price, total_balance, open_orders) ==
    Then([m EXCEPT !.st[symbol].just_entered = FALSE], LAMBDA m1 :
        IF open_orders = {} /\ can_enter_position(m1.st[symbol], m1.now)
        THEN Then(place_initial_long_order(m1, symbol, current_price, total_balance),
                  LAMBDA m2 :
                 IF m2.ret
                 THEN Then([m2 EXCEPT !.st[symbol].order_level = 1,
                                      !.st[symbol].just_entered = TRUE], LAMBDA m3 :
                          ConfirmEntry(m3, symbol, total_balance, EntryRequeries))
                 ELSE m2)
        ELSE m1)     \* open_orders is non-empty: only logging

\* lines 734-744: a long position reported
ProcessLong(m, symbol, position, total_balance, open_orders) ==
    IF ~m.st[symbol].just_entered
    THEN Then(IF open_orders # {} THEN cancel_all_orders(m, symbol) ELSE m, LAMBDA c1 :
         Then(place_all_next_level_orders(c1, symbol, Val(position).entry_price,
                                          total_balance), LAMBDA c2 :
         Then([c2 EXCEPT !.st[symbol].just_entered = TRUE], LAMBDA c3 :
         Then(calculate_cumulative_amounts(c3, symbol, Val(position).entry_price,
                                           total_balance), LAMBDA c4 :
         Then(update_tp_order(c4, symbol, position), LAMBDA c5 :
             update_tp_order(c5, symbol, position))))))
    ELSE update_tp_order(m, symbol, position)

\* lines 705-745: the poll once the ticker, the position and the open orders are fetched
AfterQueries(m3, symbol, total_balance, current_price, position) ==
    LET prev_position == m3.st[symbol].current_position
        orphans == IsNone(position) /\ m3.ret # {}
        open_orders == IF orphans THEN {} ELSE m3.ret
    IN  Then(IF orphans THEN cancel_all_orders(m3, symbol) ELSE m3, LAMBDA m4 :
        Then(check_position_status_change(m4, symbol, prev_position, position), LAMBDA m5 :
            IF m5.ret
            THEN [m5 EXCEPT !.st[symbol].current_position = position]
            ELSE
            Then(IF IsSome(position) /\ Val(position).side = "long"
                 THEN check_tp_execution(m5, symbol, position)
                 ELSE Ret(m5, FALSE), LAMBDA m6 :
                IF m6.ret
                THEN [m6 EXCEPT !.st[symbol].current_position = None]
                ELSE
                Then(IF IsNone(position)
                     THEN ProcessFlat(m6, symbol, current_price, total_balance, open_orders)
                     ELSE IF Val(position).side = "long"
                     THEN ProcessLong(m6, symbol, position, total_balance, open_orders)
                     ELSE m6, LAMBDA m7 :
                    [m7 EXCEPT !.st[symbol].current_position = position]))))

process_symbol(m, symbol, total_balance) ==
    IF ~m.st[symbol].is_active THEN m
    ELSE Then(fetch_ticker(m, symbol), LAMBDA m1 :
            IF IsNone(m1.ret) THEN m1      \* the exception ends the poll (line 747)
            ELSE
            Then(fetch_current_position(m1, symbol, Fault(m1, "position")), LAMBDA m2 :
            Then(fetch_open_orders(m2, symbol, Fault(m2, "orders")), LAMBDA m3 :
                AfterQueries(m3, symbol, total_balance, Val(m1.ret), m2.ret))))

-----------------------------------------------------------------------------
(* Bounds of the model *)
MaxCycles == 3          \* cycles of the main loop after the first
MaxFaultyPolls == 1     \* polls of one run in which an exchange call fails
MaxFillLevel == 2       \* deepest ladder rung the market fills
Prices == {100 * PriceScale}
Balances == {5000}
ExternalAmounts == {AmtInt(10)}
SymbolOrder == <<"A", "B">>

CycleSeconds == 30

FaultKinds ==
    {"ticker", "position", "orders", "orders_later", "cancel", "cancel_one", "market",
     "requery", "limit", "limit_one", "tp", "status", "fetch_position_returns"}
\* the calls that fail in one poll: none, or every call of one kind
FaultSets(faulty) ==
    {{}} \cup (IF faulty < MaxFaultyPolls THEN {{f} : f \in FaultKinds} ELSE {})

\* ccxt's market metadata by exchange: decimal places on Binance, tick sizes elsewhere
MarketFor(exchange_name) ==
    IF exchange_name = "binance"
    THEN Some(Market(1, PrecInt(0), MinValue(AmtInt(1))))
    ELSE Some(Market(1, PrecOther, MinValue(Amt(0, AmtScale \div 100))))

Settings(exchange_name, symbols, ratio, market) ==
    [selected_exchange   |-> exchange_name,
     symbols             |-> symbols,
     capital_usage_ratio |-> ratio,
     take_profit_percent |-> 1 * DistScale,
     market              |-> [s \in Symbols |-> market]]

NoPoll == [symbol |-> "", time |-> 0, total_balance |-> 0,
           before |-> InitialSymbolState, open_before |-> {}, filled_before |-> {},
           position_before |-> None,
           calls |-> <<>>]
NoCall == [fn |-> "", args |-> <<>>, result |-> <<>>]

-----------------------------------------------------------------------------
(* The trading loop and the exchange around it *)
Init ==
    /\ \E e \in Exchanges : settings = Settings(e, {"A"}, CapitalBase, MarketFor(e))
    /\ symbol_states = [s \in settings.symbols |-> InitialSymbolState]
    /\ \E p \in Prices : exchange = [s \in Symbols |-> Account(p)]
    /\ reported = [s \in Symbols |-> InitialReport]
    /\ now = 0
    /\ \E b \in Balances : run = [total_balance |-> b, done |-> {}, faulty |-> 0]
    /\ poll = NoPoll
    /\ call = NoCall

\* filled orders are remembered while the engine records their id
Forget(ex, st) ==
    [s \in DOMAIN ex |-> [ex[s] EXCEPT !.filled = @ \cap RecordedTpIds(st)]]

NextSymbol ==
    LET left == {i \in DOMAIN SymbolOrder :
                    SymbolOrder[i] \in settings.symbols \ run.done}
    IN  IF left = {} THEN None ELSE Some(SymbolOrder[MinId(left)])

(* run: one process_symbol call of the cycle *)
ProcessSymbol ==
    /\ IsSome(NextSymbol)
    /\ \E faults \in FaultSets(run.faulty) :
        LET symbol == Val(NextSymbol)
            m0 == [st |-> symbol_states, ex |-> exchange, rep |-> reported, now |-> now,
                   log |-> <<>>, faults |-> faults, ret |-> None]
            m  == process_symbol(m0, symbol, run.total_balance)
        IN  /\ symbol_states' = m.st
            /\ exchange' = Forget(m.ex, m.st)
            /\ reported' = m.rep
            /\ poll' = [symbol |-> symbol, time |-> now,
                        total_balance |-> run.total_balance,
                        before |-> symbol_states[symbol],
                        open_before |-> OrderIds(exchange[symbol].orders),
                        filled_before |-> exchange[symbol].filled,
                        position_before |-> exchange[symbol].position,
                        calls |-> m.log]
            /\ run' = [run EXCEPT !.done = @ \cup {symbol},
                                  !.faulty = IF faults = {} THEN @ ELSE @ + 1]
    /\ UNCHANGED <<settings, now, call>>

(* run: the cycle ends, the loop sleeps and fetches the balance again *)
NextCycle ==
    /\ IsNone(NextSymbol)
    /\ now < MaxCycles * CycleSeconds
    /\ now' = now + CycleSeconds
    /\ \E b \in Balances : run' = [run EXCEPT !.total_balance = b, !.done = {}]
    /\ UNCHANGED <<settings, symbol_states, exchange, poll, reported, call>>

(* the exchange: a position is opened by hand *)
ExternalOpen ==
    \E s \in settings.symbols, a \in ExternalAmounts :
        /\ IsNone(exchange[s].position)
        /\ exchange' = [exchange EXCEPT ![s].position = Some(Position(a, exchange[s].last))]
        /\ UNCHANGED <<settings, symbol_states, now, poll, reported, run, call>>

(* the exchange: the position is closed by hand *)
ExternalClose ==
    \E s \in settings.symbols :
        /\ IsSome(exchange[s].position)
        /\ exchange' = [exchange EXCEPT ![s].position = None]
        /\ UNCHANGED <<settings, symbol_states, now, poll, reported, run, call>>

(* the exchange: the price falls to the highest resting buy order *)
BuyFill ==
    \E s \in settings.symbols :
        \E o \in exchange[s].orders :
            /\ o.side = "buy"
            /\ \A o2 \in exchange[s].orders : o2.side = "buy" => o2.price <= o.price
            /\ o.level <= MaxFillLevel
            /\ exchange' = [exchange EXCEPT
                    ![s].position = BoughtInto(@, o.amount, o.price),
                    ![s].orders = @ \ {o}]
            /\ UNCHANGED <<settings, symbol_states, now, poll, reported, run, call>>

(* the exchange: the price rises to the lowest resting sell order, which  *)
(* fills against the long position                                        *)
SellFill ==
    \E s \in settings.symbols :
        \E o \in exchange[s].orders :
            /\ o.side = "sell"
            /\ \A o2 \in exchange[s].orders : o2.side = "sell" => o.price <= o2.price
            /\ IsSome(exchange[s].position)
            /\ exchange' = Forget([exchange EXCEPT
                    ![s].position = SoldFrom(@, o.amount),
                    ![s].orders = @ \ {o},
                    ![s].filled = @ \cup {o.id}], symbol_states)
            /\ UNCHANGED <<settings, symbol_states, now, poll, reported, run, call>>

Next ==
    \/ ProcessSymbol
    \/ NextCycle
    \/ ExternalOpen
    \/ ExternalClose
    \/ BuyFill
    \/ SellFill

Spec == Init /\ [][Next]_vars

-----------------------------------------------------------------------------
(* Direct calls of the calculations, one at a time, on settings of every   *)
(* shape: call records the arguments and what the calculation returned     *)
Ratios == {85, 170, 340}                               \* capital_usage_ratio
SymbolSets == {{"A"}, {"A", "B"}}
CallMarkets ==
    {None, MarketFor("binance"), MarketFor("okx"), Some(Market(1, PrecInt(3), MinNull))}
CallBalances == {0, 1, 1000, 1001}
CallPrices == {PriceScale \div 2, 100 * PriceScale}    \* 0.5 and 100
CloseTimes == {0, 30}
Elapsed == {0, 30, 59, 60, 61, 90}
VolatilityStops == {None, Some(98 * PriceScale), Some(102 * PriceScale)}

\* the states the re-entry gate is asked about: before any close, and after one
GateStates ==
    {InitialSymbolState}
        \cup {[InitialSymbolState EXCEPT !.is_first_entry = FALSE,
                                         !.last_close_time = Some(T)] : T \in CloseTimes}

InitFn ==
    /\ \E r \in Ratios, symbols \in SymbolSets, market \in CallMarkets :
            settings = Settings("binance", symbols, r, market)
    /\ symbol_states = [s \in settings.symbols |-> InitialSymbolState]
    /\ exchange = [s \in Symbols |-> Account(100 * PriceScale)]
    /\ reported = [s \in Symbols |-> InitialReport]
    /\ now = 0
    /\ run = [total_balance |-> 0, done |-> {}, faulty |-> 0]
    /\ poll = NoPoll
    /\ call = NoCall

CallCanEnter ==
    \E state \in GateStates, e \in Elapsed :
        LET t == IF IsSome(state.last_close_time) THEN Val(state.last_close_time) + e ELSE e
        IN  /\ call' = [fn |-> "can_enter_position", args |-> <<state, t>>,
                        result |-> <<can_enter_position(state, t)>>]
            /\ UNCHANGED <<settings, symbol_states, exchange, now, poll, reported, run>>

CallOrderAmount ==
    \E level \in DOMAIN Levels, price \in CallPrices, total_balance \in CallBalances,
       symbol \in settings.symbols :
        /\ call' = [fn |-> "calculate_order_amount",
                    args |-> <<level, price, total_balance, symbol>>,
                    result |-> <<position_value(level, total_balance),
                                 calculate_order_amount(level, price, total_balance, symbol)>>]
        /\ UNCHANGED <<settings, symbol_states, exchange, now, poll, reported, run>>

\* update_tp_order for a fresh long position of symbol A, while the candles of
\* the exchange define the volatility stop volatility_stop (None: no stop)
CallUpdateTp ==
    \E entry_price \in CallPrices, volatility_stop \in VolatilityStops :
        LET position == Position(AmtInt(10), entry_price)
            m0 == [st |-> symbol_states,
                   ex |-> [exchange EXCEPT !["A"].position = Some(position)],
                   rep |-> reported, now |-> now, log |-> <<>>, faults |-> {}, ret |-> None]
        IN  \E m \in {update_tp_order(m0, "A", Some(position))} :
                /\ call' = [fn |-> "update_tp_order",
                            args |-> <<entry_price, volatility_stop>>,
                            result |-> <<m.st["A"].current_tp_price,
                                         m.st["A"].current_tp_type>>]
                /\ UNCHANGED <<settings, symbol_states, exchange, now, poll, reported, run>>

\* update_tp_order for a long position of symbol A whose protective order
\* (id RecordedId) is recorded at the target price plus offset, under the
\* tag tp_type, or for which none is recorded
TpOffsets == {0, PriceScale \div 100, -(PriceScale \div 100),
              PriceScale \div 100 + 1, -(PriceScale \div 100) - 1}
TpTypes == {"profit", "stop"}
RecordedId == 7

CallUpdateTpOnRecorded ==
    \E entry_price \in CallPrices, offset \in TpOffsets, tp_type \in TpTypes,
       recorded \in BOOLEAN :
        LET position == Position(AmtInt(10), entry_price)
            price == TargetTpPrice(entry_price) + offset
            order == Order(RecordedId, "sell", price, AmtInt(10), TRUE, 0)
            before == IF recorded
                      THEN [InitialSymbolState EXCEPT !.tp_order_id = Some(RecordedId),
                                                      !.current_tp_price = Some(price),
                                                      !.current_tp_type = Some(tp_type)]
                      ELSE InitialSymbolState
            m0 == [st |-> [symbol_states EXCEPT !["A"] = before],
                   ex |-> [exchange EXCEPT !["A"].position = Some(position),
                                           !["A"].orders =
                                                IF recorded THEN {order} ELSE {}],
                   rep |-> reported, now |-> now, log |-> <<>>, faults |-> {}, ret |-> None]
        IN  \E m \in {update_tp_order(m0, "A", Some(position))} :
                /\ call' = [fn |-> "update_tp_order on recorded",
                            args |-> <<entry_price, before>>,
                            result |-> <<m.st["A"], m.log, OrderIds(m.ex["A"].orders)>>]
                /\ UNCHANGED <<settings, symbol_states, exchange, now, poll, reported, run>>

\* calculate_levels for a capital usage ratio given in whole percent
LevelRatios == {1, 85, 100, 170, 340, 500}

CallCalculateLevels ==
    \E user_ratio \in LevelRatios :
        /\ call' = [fn |-> "calculate_levels", args |-> <<user_ratio>>,
                    result |-> <<calculate_levels(user_ratio)>>]
        /\ UNCHANGED <<settings, symbol_states, exchange, now, poll, reported, run>>

\* get_current_level_from_position on the empty table and on the tables of
\* the settings, for whole and half quantities
TableBalances == {1000}
MaxContracts == 20
PositionAmounts == {AmtInt(k) : k \in 0..MaxContracts} \cup {Amt(1, AmtScale \div 2)}

CallCurrentLevel ==
    \E table \in {<<>>} \cup {CumulativeTable("A", p, b) : p \in CallPrices, b \in TableBalances},
       position_amount \in PositionAmounts :
        /\ call' = [fn |-> "get_current_level_from_position",
                    args |-> <<table, position_amount>>,
                    result |-> <<get_current_level_from_position(table, position_amount)>>]
        /\ UNCHANGED <<settings, symbol_states, exchange, now, poll, reported, run>>

\* calculate_cumulative_amounts for symbol A in its initial state
CallCumulativeAmounts ==
    \E entry_price \in CallPrices, total_balance \in CallBalances :
        LET m0 == [st |-> symbol_states, ex |-> exchange, rep |-> reported, now |-> now,
                   log |-> <<>>, faults |-> {}, ret |-> None]
        IN  \E m \in {calculate_cumulative_amounts(m0, "A", entry_price, total_balance)} :
                /\ call' = [fn |-> "calculate_cumulative_amounts",
                            args |-> <<entry_price, total_balance>>,
                            result |-> <<m.st["A"].cumulative_amounts>>]
                /\ UNCHANGED <<settings, symbol_states, exchange, now, poll, reported, run>>

\* reset_symbol_state_after_close called twice in succession for symbol A, in
\* its initial state or in the state an entry leaves, with or without open
\* orders; the second call starts delay seconds after the first (each call
\* sleeps one second before it reads the clock) and every call has its own
\* failing exchange calls
ResetDelays == {1, 2}
ResetFaults == {{}, {"cancel"}, {"cancel_one"}, {"orders_later"}}
ResetStates ==
    {InitialSymbolState,
     [InitialSymbolState EXCEPT !.order_level = 10,
                                !.just_entered = TRUE,
                                !.tp_order_id = Some(RecordedId),
                                !.current_tp_price = Some(101 * PriceScale),
                                !.current_tp_type = Some("profit"),
                                !.cumulative_amounts =
                                    CumulativeTable("A", 100 * PriceScale, 1000)]}
ResetOrders ==
    {{}, {Order(1, "buy", 99 * PriceScale, AmtInt(1), FALSE, 2),
          Order(2, "buy", 98 * PriceScale, AmtInt(1), FALSE, 3)}}

CallResetTwice ==
    \E before \in ResetStates, orders \in ResetOrders, delay \in ResetDelays,
       first \in ResetFaults, second \in ResetFaults :
        LET m0 == [st |-> [symbol_states EXCEPT !["A"] = before],
                   ex |-> [exchange EXCEPT !["A"].orders = orders],
                   rep |-> reported, now |-> now, log |-> <<>>, faults |-> first,
                   ret |-> None]
        IN  \E once \in {reset_symbol_state_after_close(m0, "A")} :
            \E again \in {[once EXCEPT !.now = @ + delay, !.log = <<>>,
                                       !.faults = second]} :
            \E twice \in {reset_symbol_state_after_close(again, "A")} :
                /\ call' = [fn |-> "reset_symbol_state_after_close twice",
                            args |-> <<before, OrderIds(orders), delay>>,
                            result |-> <<once.st["A"], twice.st["A"],
                                         OrderIds(once.ex["A"].orders), twice.log>>]
                /\ UNCHANGED <<settings, symbol_states, exchange, now, poll, reported, run>>

\* two polls of symbol A at one price: the entry poll from the initial state,
\* then, after the exchange has filled the highest resting ladder buy, the
\* poll of the next cycle
FillBalances == {1000}

HighestBuys(orders) ==
    {o \in orders : o.side = "buy" /\ \A o2 \in orders : o2.side = "buy" => o2.price <= o.price}

LadderFill(account) ==
    IF HighestBuys(account.orders) = {} THEN account
    ELSE LET o == CHOOSE o \in HighestBuys(account.orders) : TRUE
         IN  [account EXCEPT !.position = BoughtInto(@, o.amount, o.price),
                             !.orders = @ \ {o}]

CallPollAfterFill ==
    \E price \in CallPrices, total_balance \in FillBalances :
        LET m0 == [st |-> [symbol_states EXCEPT !["A"] = InitialSymbolState],
                   ex |-> [exchange EXCEPT !["A"] = Account(price)],
                   rep |-> reported, now |-> now, log |-> <<>>, faults |-> {},
                   ret |-> None]
        IN  \E entered \in {process_symbol(m0, "A", total_balance)} :
            \E filled \in {[entered EXCEPT !.ex["A"] = LadderFill(@),
                                           !.now = @ + CycleSeconds, !.log = <<>>]} :
            \E m \in {process_symbol(filled, "A", total_balance)} :
                /\ call' = [fn |-> "process_symbol after a ladder fill",
                            args |-> <<price, total_balance>>,
                            result |-> <<entered.ex["A"].position,
                                         filled.ex["A"].position,
                                         m.ex["A"].position,
                                         {o \in m.ex["A"].orders :
                                            Some(o.id) = m.st["A"].tp_order_id},
                                         m.log>>]
                /\ UNCHANGED <<settings, symbol_states, exchange, now, poll, reported, run>>

NextFn ==
    \/ CallCalculateLevels
    \/ CallCumulativeAmounts
    \/ CallCurrentLevel
    \/ CallCanEnter
    \/ CallOrderAmount
    \/ CallUpdateTp
    \/ CallUpdateTpOnRecorded
    \/ CallResetTwice
    \/ CallPollAfterFill

SpecFn == InitFn /\ [][NextFn]_vars

-----------------------------------------------------------------------------
(* TradingGUI.start_trading: the settings read from the form are checked,  *)
(* the trader is constructed and its run loop is started on a thread       *)

\* what the form and the exchange hold when start is pressed: which of the
\* credentials are filled in, the symbols entered, the activation level,
\* whether the exchange answers load_time_difference, and the symbols for
\* which the exchange rejects the leverage calls
ActivationLevels == {0, 1, 10, 11}
GuiConfigs ==
    {[exchange |-> e, api_key |-> k, secret_key |-> sk, password |-> pw,
      symbols |-> syms, donchian_activation_level |-> lv, connects |-> c,
      rejected |-> rej] :
        e \in Exchanges, k \in BOOLEAN, sk \in BOOLEAN, pw \in BOOLEAN,
        syms \in SUBSET Symbols, lv \in ActivationLevels, c \in BOOLEAN,
        rej \in SUBSET Symbols}

\* initialize_exchange raises when a call to the exchange fails; the position
\* mode calls keep their failures to themselves
initialize_exchange_raises(config) == ~config.connects

\* set_leverages: a symbol's failure is logged and the loop goes on
set_leverages(config) == [s \in config.symbols |-> s \notin config.rejected]

\* the constructor of MultiSymbolAutoTrader raises only through initialize_exchange
TraderConstructed(config) == ~initialize_exchange_raises(config)

\* showerror: an error is shown to the host; started: trading_thread.start() ran
start_trading(config) ==
    IF ~(config.api_key /\ config.secret_key)
            \/ (config.exchange = "okx" /\ ~config.password)
    THEN [error |-> TRUE, started |-> FALSE, leverage_set |-> <<>>]
    ELSE IF config.symbols = {}
    THEN [error |-> TRUE, started |-> FALSE, leverage_set |-> <<>>]
    ELSE IF config.donchian_activation_level < 1 \/ config.donchian_activation_level > 10
    THEN [error |-> TRUE, started |-> FALSE, leverage_set |-> <<>>]
    ELSE IF ~TraderConstructed(config)
    THEN [error |-> TRUE, started |-> FALSE, leverage_set |-> <<>>]
    ELSE [error |-> FALSE, started |-> TRUE, leverage_set |-> set_leverages(config)]

InitGui ==
    /\ settings = Settings("binance", {"A"}, CapitalBase, MarketFor("binance"))
    /\ symbol_states = [s \in settings.symbols |-> InitialSymbolState]
    /\ exchange = [s \in Symbols |-> Account(100 * PriceScale)]
    /\ reported = [s \in Symbols |-> InitialReport]
    /\ now = 0
    /\ run = [total_balance |-> 0, done |-> {}, faulty |-> 0]
    /\ poll = NoPoll
    /\ call = NoCall

StartTrading ==
    \E config \in GuiConfigs :
        /\ config.rejected \subseteq config.symbols
        /\ call' = [fn |-> "start_trading", args |-> <<config>>,
                    result |-> <<start_trading(config)>>]
        /\ UNCHANGED <<settings, symbol_states, exchange, now, poll, reported, run>>

NextGui == StartTrading

SpecGui == InitGui /\ [][NextGui]_vars

-----------------------------------------------------------------------------
(* close_position_market, close_all_positions, emergency_stop *)

\* the position is queried again and, if long, sold at the market; the
\* three fields are written only when the exchange accepted the order
close_position_market(m, symbol) ==
    Then(fetch_current_position(m, symbol, Fault(m, "requery")), LAMBDA m1 :
        IF IsSome(m1.ret) /\ Val(m1.ret).side = "long"
        THEN IF Fault(m1, "market")
             THEN Ret(Logged(m1, Ev("create_market_order", "sell", 0, 0,
                                    m1.ex[symbol].last, Val(m1.ret).amount, FALSE)), None)
             ELSE Then(FreshId(m1), LAMBDA id :
                  Then(Val(m1.ret).amount, LAMBDA amount :
                    Ret(Logged([m1 EXCEPT !.ex[symbol].position = SoldFrom(@, amount),
                                          !.st[symbol].last_close_time = Some(m1.now),
                                          !.st[symbol].is_first_entry = FALSE,
                                          !.st[symbol].cumulative_amounts = <<>>],
                               Ev("create_market_order", "sell", id, 0,
                                  m1.ex[symbol].last, amount, TRUE)), Some(id))))
        ELSE Ret(m1, None))

\* close_all_positions: the body of its loop for one symbol
close_all_positions(m, symbol) ==
    Then(fetch_current_position(m, symbol, Fault(m, "position")), LAMBDA m1 :
        IF IsSome(m1.ret) THEN close_position_market(m1, symbol) ELSE m1)

-----------------------------------------------------------------------------
(* run on the trading thread, stop and emergency_stop on the thread of the *)
(* host: run.pc is the place of the loop, run.host the progress of the     *)
(* host's call, run.host.steps what emergency_stop has done so far          *)
MaxRunCycles == 1       \* cycles of the loop after the first
MaxRaises == 1          \* exceptions that reach the handler of run
BackoffSeconds == 10

RunSymbols == {"A", "B"}
HostFaultKinds == {"orders_later", "cancel", "position", "requery", "market"}
HostFaultSets(faulty) ==
    {{}} \cup (IF faulty < MaxFaultyPolls THEN {{f} : f \in HostFaultKinds} ELSE {})

NoHost == [pc |-> "idle", left |-> {}, steps |-> <<>>]

InitRun ==
    /\ settings = Settings("binance", RunSymbols, CapitalBase, MarketFor("binance"))
    /\ symbol_states = [s \in settings.symbols |-> InitialSymbolState]
    /\ \E p \in Prices : exchange = [s \in Symbols |-> Account(p)]
    /\ reported = [s \in Symbols |-> InitialReport]
    /\ now = 0
    /\ run = [total_balance |-> 0, done |-> {}, faulty |-> 0, should_stop |-> FALSE,
              pc |-> "while", symbol |-> "", cycles |-> 0, raised |-> 0, failed |-> {},
              balance_failed |-> FALSE, host |-> NoHost]
    /\ poll = NoPoll
    /\ call = NoCall

\* the first symbol of the list that is not in done
FirstLeft(done) ==
    LET left == {i \in DOMAIN SymbolOrder : SymbolOrder[i] \in settings.symbols \ done}
    IN  IF left = {} THEN None ELSE Some(SymbolOrder[MinId(left)])

\* except Exception: the error is logged and the loop sleeps 10 seconds
run_uncaught(r) == [r EXCEPT !.pc = "returned", !.symbol = ""]
run_except(r) == [r EXCEPT !.pc = "backoff", !.symbol = ""]

\* the head of the for loop: break on the stop flag, else the next symbol
run_for_each(r) ==
    IF IsNone(FirstLeft(r.done))
    THEN [r EXCEPT !.pc = "status", !.symbol = ""]
    ELSE [r EXCEPT !.pc = "poll", !.symbol = Val(FirstLeft(r.done))]
run_for(r) ==
    IF r.should_stop \/ IsNone(FirstLeft(r.done))
    THEN [r EXCEPT !.pc = "status", !.symbol = ""]
    ELSE [r EXCEPT !.pc = "poll", !.symbol = Val(FirstLeft(r.done))]

\* process_symbol has returned: on to the next symbol, whatever failed in
\* calls; failed keeps the symbols of the cycle whose poll had a failing call
after_process_symbol_raising(r, calls) ==
    IF \E i \in DOMAIN calls : ~calls[i].ok
    THEN run_except(r)
    ELSE [r EXCEPT !.pc = "for", !.done = @ \cup {r.symbol}]
after_process_symbol(r, calls) ==
    [r EXCEPT !.pc = "for", !.done = @ \cup {r.symbol},
              !.failed = IF \E i \in DOMAIN calls : ~calls[i].ok
                         THEN @ \cup {r.symbol} ELSE @]

\* a balance query that keeps the balance of the account when the call fails
fetch_balance_unchecked(balance, fails) == balance

(* fetch_balance: the USDT total of the account, 0 when the call fails *)
fetch_balance(balance, fails) == IF fails THEN 0 ELSE balance

BalanceFaults(faulty) == IF faulty < MaxFaultyPolls THEN BOOLEAN ELSE {FALSE}

(* run: while not self.should_stop, then fetch_balance *)
RunWhile ==
    /\ run.pc = "while"
    /\ IF run.should_stop
       THEN run' = [run EXCEPT !.pc = "returned"]
       ELSE /\ run.cycles <= MaxRunCycles
            /\ \E b \in Balances, fails \in BalanceFaults(run.faulty) :
                run' = [run EXCEPT !.total_balance = fetch_balance(b, fails),
                                   !.balance_failed = fails,
                                   !.faulty = IF fails THEN @ + 1 ELSE @,
                                   !.done = {}, !.failed = {},
                                   !.pc = "for", !.cycles = @ + 1]
    /\ UNCHANGED <<settings, symbol_states, exchange, now, poll, reported, call>>

(* run: if self.should_stop: break *)
RunFor ==
    /\ run.pc = "for"
    /\ run' = run_for(run)
    /\ UNCHANGED <<settings, symbol_states, exchange, now, poll, reported, call>>

(* run: the process_symbol call begun by RunFor runs to its end *)
RunPoll ==
    /\ run.pc = "poll"
    /\ \E faults \in FaultSets(run.faulty) :
        LET symbol == run.symbol
            m0 == [st |-> symbol_states, ex |-> exchange, rep |-> reported, now |-> now,
                   log |-> <<>>, faults |-> faults, ret |-> None]
        IN  \E m \in {process_symbol(m0, symbol, run.total_balance)} :
            /\ symbol_states' = m.st
            /\ exchange' = Forget(m.ex, m.st)
            /\ reported' = m.rep
            /\ poll' = [symbol |-> symbol, time |-> now,
                        total_balance |-> run.total_balance,
                        before |-> symbol_states[symbol],
                        open_before |-> OrderIds(exchange[symbol].orders),
                        filled_before |-> exchange[symbol].filled,
                        position_before |-> exchange[symbol].position,
                        calls |-> m.log]
            /\ run' = after_process_symbol(
                        [run EXCEPT !.faulty = IF faults = {} THEN @ ELSE @ + 1], m.log)
    /\ UNCHANGED <<settings, now, call>>

(* run: show_status and last_status_time; an exception here reaches the   *)
(* handler of the loop                                                     *)
RunStatus ==
    /\ run.pc = "status"
    /\ \E raises \in {FALSE} \cup (IF run.raised < MaxRaises THEN {TRUE} ELSE {}) :
        run' = IF raises THEN run_except([run EXCEPT !.raised = @ + 1])
               ELSE [run EXCEPT !.pc = "sleep"]
    /\ UNCHANGED <<settings, symbol_states, exchange, now, poll, reported, call>>

(* run: time.sleep(30) *)
RunSleep ==
    /\ run.pc = "sleep"
    /\ now' = now + CycleSeconds
    /\ run' = [run EXCEPT !.pc = "while"]
    /\ UNCHANGED <<settings, symbol_states, exchange, poll, reported, call>>

(* run: time.sleep(10) in the handler *)
RunBackoff ==
    /\ run.pc = "backoff"
    /\ now' = now + BackoffSeconds
    /\ run' = [run EXCEPT !.pc = "while"]
    /\ UNCHANGED <<settings, symbol_states, exchange, poll, reported, call>>

RunLoop == RunWhile \/ RunFor \/ RunPoll \/ RunStatus \/ RunSleep \/ RunBackoff

\* one step of emergency_stop as the host's record keeps it: the calls made,
\* whether the step wrote the symbol's state, and whether the loop was then
\* inside process_symbol for the same symbol
HostStep(op, symbol, calls, wrote) ==
    [op |-> op, symbol |-> symbol, calls |-> calls, wrote |-> wrote,
     in_poll |-> run.pc = "poll" /\ run.symbol = symbol]

\* the symbols the running phase of emergency_stop has still to visit
Pending(h) == IF h.pc = "idle" THEN settings.symbols ELSE h.left

\* emergency_stop after a step: the next symbol, then the next phase
emergency_next_unless_failed(h, step) ==
    IF \E i \in DOMAIN step.calls : ~step.calls[i].ok
    THEN [pc |-> "stopped", left |-> {}, steps |-> Append(h.steps, step)]
    ELSE LET left == Pending(h) \ {step.symbol}
         IN  [pc    |-> IF left # {} THEN (IF h.pc = "close" THEN "close" ELSE "cancel")
                        ELSE IF h.pc = "close" THEN "flag" ELSE "close",
              left  |-> IF left = {} /\ h.pc # "close" THEN settings.symbols ELSE left,
              steps |-> Append(h.steps, step)]
emergency_next(h, step) ==
    LET left == Pending(h) \ {step.symbol}
    IN  [pc    |-> IF left # {} THEN (IF h.pc = "close" THEN "close" ELSE "cancel")
                   ELSE IF h.pc = "close" THEN "flag" ELSE "close",
         left  |-> IF left = {} /\ h.pc # "close" THEN settings.symbols ELSE left,
         steps |-> Append(h.steps, step)]

(* stop, called by the host while the loop runs *)
Stop ==
    /\ run.host.pc = "idle"
    /\ run.pc # "returned"
    /\ run' = [run EXCEPT !.should_stop = TRUE, !.host.pc = "stopped"]
    /\ UNCHANGED <<settings, symbol_states, exchange, now, poll, reported, call>>

(* emergency_stop: cancel_all_orders for the next symbol *)
EmergencyCancel ==
    /\ run.host.pc \in {"idle", "cancel"}
    /\ run.pc # "returned"
    /\ \E faults \in HostFaultSets(run.faulty) :
        LET symbol == Val(FirstLeft(settings.symbols \ Pending(run.host)))
            m0 == [st |-> symbol_states, ex |-> exchange, rep |-> reported, now |-> now,
                   log |-> <<>>, faults |-> faults, ret |-> None]
        IN  \E m \in {cancel_all_orders(m0, symbol)} :
            /\ exchange' = Forget(m.ex, m.st)
            /\ run' = [run EXCEPT
                        !.faulty = IF faults = {} THEN @ ELSE @ + 1,
                        !.host = emergency_next(@, HostStep("cancel_all_orders", symbol,
                                                            m.log, FALSE))]
    /\ UNCHANGED <<settings, symbol_states, now, poll, reported, call>>

(* emergency_stop: close_all_positions for the next symbol *)
EmergencyClose ==
    /\ run.host.pc = "close"
    /\ \E faults \in HostFaultSets(run.faulty) :
        LET symbol == Val(FirstLeft(settings.symbols \ Pending(run.host)))
            m0 == [st |-> symbol_states, ex |-> exchange, rep |-> reported, now |-> now,
                   log |-> <<>>, faults |-> faults, ret |-> None]
        IN  \E m \in {close_all_positions(m0, symbol)} :
            /\ symbol_states' = m.st
            /\ exchange' = Forget(m.ex, m.st)
            /\ reported' = m.rep
            /\ run' = [run EXCEPT
                        !.faulty = IF faults = {} THEN @ ELSE @ + 1,
                        !.host = emergency_next(@, HostStep("close_all_positions", symbol,
                                                 m.log, m.st[symbol] # symbol_states[symbol]))]
    /\ UNCHANGED <<settings, now, poll, call>>

(* emergency_stop: self.stop() *)
EmergencyFlag ==
    /\ run.host.pc = "flag"
    /\ run' = [run EXCEPT !.should_stop = TRUE, !.host.pc = "stopped"]
    /\ UNCHANGED <<settings, symbol_states, exchange, now, poll, reported, call>>

NextRun ==
    \/ RunWhile
    \/ RunFor
    \/ RunPoll
    \/ RunStatus
    \/ RunSleep
    \/ RunBackoff
    \/ Stop
    \/ EmergencyCancel
    \/ EmergencyClose
    \/ EmergencyFlag

SpecRun == InitRun /\ [][NextRun]_vars

\* the trading thread is scheduled as long as it has a step to take
SpecRunFair == SpecRun /\ WF_vars(RunLoop)

-----------------------------------------------------------------------------
(* Reading the record of the last poll *)
CallsOf(op) == {i \in DOMAIN poll.calls : poll.calls[i].op = op}
MaxId(S) == CHOOSE i \in S : \A j \in S : j <= i

\* a position query that returned an open position
ReportsOpen(e) == e.op = "fetch_positions" /\ e.ok /\ e.price > 0
OpenReports == {i \in CallsOf("fetch_positions") : ReportsOpen(poll.calls[i])}

\* the poll's first position query returned None
FirstQueryNone ==
    /\ CallsOf("fetch_positions") # {}
    /\ ~ReportsOpen(poll.calls[MinId(CallsOf("fetch_positions"))])

\* the exchange answered the poll's first position query
PositionAnswered ==
    /\ CallsOf("fetch_positions") # {}
    /\ poll.calls[MinId(CallsOf("fetch_positions"))].ok

\* it answered with no position, and no later query of the poll returned one
ExchangeReportsNone == PositionAnswered /\ OpenReports = {}

MarketBuys == {i \in CallsOf("create_market_order") : poll.calls[i].side = "buy"}
OrdersPlaced == CallsOf("create_market_order") \cup CallsOf("create_limit_order")
CancelledIds == {poll.calls[i].id : i \in CallsOf("cancel_order")}

\* cancel_all_orders ran and its own open-orders query was answered
CancelAllListed ==
    \E i \in CallsOf("fetch_open_orders") :
        i > MinId(CallsOf("fetch_open_orders")) /\ poll.calls[i].ok

NoProtectiveOrder(state) ==
    /\ IsNone(state.tp_order_id)
    /\ IsNone(state.current_tp_price)
    /\ IsNone(state.current_tp_type)

-----------------------------------------------------------------------------
\* C1: after the exchange goes from reporting an open position of a symbol to
\* reporting none, no poll submits an initial market buy for the symbol until
\* 60 seconds have passed since that report, however the position was opened.
CooldownAfterClose ==
    \A s \in settings.symbols :
        (poll.symbol = s /\ MarketBuys # {} /\ IsSome(reported[s].close_time))
            => poll.time - Val(reported[s].close_time) >= ReentryWaitSeconds

\* a poll that is told of the close of the engine's own entry and buys at once
EntryRightAfterClose ==
    /\ run.faulty = 0
    /\ poll.symbol = "A"
    /\ MarketBuys # {}
    /\ reported["A"].close_time = Some(poll.time)
    /\ poll.before.is_first_entry
    /\ poll.before.order_level > 0

\* C2 (as amended): in a poll where the stored previous position is present
\* and the position query returns none, a cancel is attempted for every open
\* order that cancel_all_orders' open-orders query lists, last_close_time is
\* the poll's time, order_level is 0, the protective-order fields and the
\* cumulative table are cleared, is_first_entry and just_entered are false,
\* the stored position is none, and the poll places no order.
ClosureHandled(s, all_cancelled) ==
    (poll.symbol = s /\ IsSome(poll.before.current_position) /\ FirstQueryNone)
        => /\ all_cancelled
           /\ symbol_states[s].last_close_time = Some(poll.time)
           /\ symbol_states[s].order_level = 0
           /\ NoProtectiveOrder(symbol_states[s])
           /\ symbol_states[s].cumulative_amounts = <<>>
           /\ ~symbol_states[s].is_first_entry
           /\ ~symbol_states[s].just_entered
           /\ IsNone(symbol_states[s].current_position)
           /\ OrdersPlaced = {}

NoProtectiveOrderWhenFlat ==
    \A s \in settings.symbols :
        (poll.symbol = s /\ ExchangeReportsNone) => NoProtectiveOrder(symbol_states[s])

\* a poll that ends flat with the protective order of a closed position recorded
StaleProtectiveOrder ==
    /\ poll.symbol = "A"
    /\ ExchangeReportsNone
    /\ IsSome(symbol_states["A"].tp_order_id)
    /\ IsNone(exchange["A"].position)

\* C4: at most one sell order of the engine is open per symbol, and an open
\* one is the protective order recorded in the symbol's state.
SellOrders(s) == {o \in exchange[s].orders : o.side = "sell"}

SingleExitOrder ==
    \A s \in settings.symbols :
        /\ Cardinality(SellOrders(s)) <= 1
        /\ \A o \in SellOrders(s) : symbol_states[s].tp_order_id = Some(o.id)

\* two reduce-only sell orders open after a cancel failed
TwoProtectiveOrders ==
    \E o1, o2 \in SellOrders("A") : o1.id # o2.id /\ o1.reduce_only /\ o2.reduce_only

\* C5: in a poll where the exchange reports no position and no open orders
\* for the symbol and the re-entry gate permits entry, exactly one market buy
\* is submitted, for the quantity calculate_order_amount gives for rung 1 at
\* the ticker price, on every supported exchange.
EntryPoll(s) ==
    /\ poll.symbol = s
    /\ poll.calls[1].op = "fetch_ticker" /\ poll.calls[1].ok
    /\ ExchangeReportsNone
    /\ poll.calls[MinId(CallsOf("fetch_open_orders"))].ok
    /\ poll.open_before = {}
    /\ can_enter_position(poll.before, poll.time)

InitialMarketBuy ==
    \A s \in settings.symbols :
        EntryPoll(s) =>
            /\ Cardinality(MarketBuys) = 1
            /\ \A i \in MarketBuys :
                    poll.calls[i].amount =
                        calculate_order_amount(1, poll.calls[1].price, poll.total_balance, s)

\* on OKX the poll that should enter submits nothing
NoMarketBuyOnOkx ==
    /\ settings.selected_exchange = "okx"
    /\ EntryPoll("A")
    /\ OrdersPlaced = {}

\* C6: when the market buy succeeds and a re-query reports the long position,
\* the same poll then submits one limit buy per rung 2..10 at
\* entry * (1 - distance/100), a failed rung not stopping the rest, builds
\* the cumulative table from that entry price and places the protective
\* order, once, with no further re-query.
ConfirmedAt == {k \in OpenReports : \E b \in MarketBuys : b < k /\ poll.calls[b].ok}

EntrySetup ==
    \A s \in settings.symbols :
        (poll.symbol = s /\ ConfirmedAt # {}) =>
            LET k == MinId(ConfirmedAt)
                entry_price == poll.calls[k].price
            IN  /\ Len(poll.calls) >= k + max_level
                /\ \A n \in 2..max_level :
                        LET e == poll.calls[k + n - 1]
                        IN  /\ e.op = "create_limit_order" /\ e.side = "buy"
                            /\ e.level = n
                            /\ e.price = LadderPrice(entry_price, n)
                /\ poll.calls[k + max_level].op = "calculate_cumulative_amounts"
                /\ poll.calls[k + max_level].price = entry_price
                /\ symbol_states[s].cumulative_amounts # <<>>
                /\ \E j \in CallsOf("create_limit_order") :
                        j > k + max_level /\ poll.calls[j].side = "sell"
                /\ \A i \in CallsOf("fetch_positions") : i <= k
                /\ Cardinality(CallsOf("calculate_cumulative_amounts")) = 1

\* a confirmed entry whose poll places no protective order: the one recorded
\* for the position before is taken for the new one
SetupWithoutProtectiveOrder ==
    /\ run.faulty = 0
    /\ poll.symbol = "A"
    /\ ConfirmedAt # {}
    /\ IsSome(poll.before.tp_order_id)
    /\ \A j \in CallsOf("create_limit_order") : poll.calls[j].side = "buy"
    /\ SellOrders("A") = {}

\* C10: at the end of every poll (whose position query the exchange answers)
\* the cumulative table is non-empty only if the exchange reported an open
\* position for the symbol in that poll, and then it is the table computed
\* from the entry price of that position.
CumulativeTableCurrent ==
    \A s \in settings.symbols :
        (poll.symbol = s /\ PositionAnswered
                /\ symbol_states[s].cumulative_amounts # <<>>) =>
            /\ OpenReports # {}
            /\ symbol_states[s].cumulative_amounts =
                    CumulativeTable(s, poll.calls[MaxId(OpenReports)].price,
                                    poll.total_balance)

\* a poll that ends flat with the table of the closed position kept
CarriedOverTable ==
    /\ poll.symbol = "A"
    /\ ExchangeReportsNone
    /\ IsNone(exchange["A"].position)
    /\ symbol_states["A"].cumulative_amounts # <<>>

-----------------------------------------------------------------------------
\* C7: update_tp_order chooses (volatility stop, "stop") whenever a volatility
\* stop is defined and strictly below entry * (1 + take_profit_percent/100),
\* and (that target, "profit") otherwise; entry 100, 1% and stop 98 give
\* price 98 and intent "stop".
ExitSelection ==
    call.fn = "update_tp_order" =>
        LET entry_price == call.args[1]
            volatility_stop == call.args[2]
            target == TargetTpPrice(entry_price)
        IN  call.result =
                IF IsSome(volatility_stop) /\ Val(volatility_stop) < target
                THEN <<volatility_stop, Some("stop")>>
                ELSE <<Some(target), Some("profit")>>

\* entry 100 with a stop of 98 defined: the order is placed at 101 for profit
ProfitTargetDespiteStop ==
    /\ call.fn = "update_tp_order"
    /\ call.args = <<100 * PriceScale, Some(98 * PriceScale)>>
    /\ call.result = <<Some(101 * PriceScale), Some("profit")>>

\* C8: the position value calculate_order_amount converts to contracts is
\* total_balance * (levels[n].ratio / 100) / active symbols, the levels being
\* the table already rescaled by r/170 (scaled once); balance 1000, one
\* symbol, r = 170 and rung 1 give 50, and at price 0.5 the quantity 100.
PositionValueScaledOnce ==
    call.fn = "calculate_order_amount" =>
        LET level == call.args[1]
            price == call.args[2]
            total_balance == call.args[3]
        IN  /\ call.result[1] = (total_balance * Levels[level].ratio) \div active_symbols_count
            /\ (/\ settings.capital_usage_ratio = CapitalBase
                /\ active_symbols_count = 1
                /\ level = 1 /\ total_balance = 1000 /\ price = PriceScale \div 2)
                    => /\ call.result[1] = 50 * ValueScale
                       /\ call.result[2] = AmtInt(100)

\* r = 340: rung 1 of a balance of 1000 is sized at 200, not at 100
ScaledTwice ==
    /\ call.fn = "calculate_order_amount"
    /\ settings.capital_usage_ratio = 340
    /\ active_symbols_count = 1
    /\ call.args[1] = 1 /\ call.args[3] = 1000
    /\ Levels[1].ratio = 10 * RatioScale
    /\ call.result[1] = 200 * ValueScale

\* C9: can_enter_position returns true whenever is_first_entry is true; with
\* is_first_entry false and last_close_time set it returns false before 60
\* seconds have elapsed since last_close_time and true from 60 seconds on.
ReentryGate ==
    call.fn = "can_enter_position" =>
        LET state == call.args[1]
            t == call.args[2]
            permitted == call.result[1]
        IN  /\ state.is_first_entry => permitted
            /\ (~state.is_first_entry /\ IsSome(state.last_close_time)) =>
                    (permitted <=> t - Val(state.last_close_time) >= 60)

\* asked 30 seconds after the close and again at exactly 60
GateAtThirtyAndSixty ==
    /\ call.fn = "can_enter_position"
    /\ ~call.args[1].is_first_entry
    /\ \/ /\ call.args[2] - Val(call.args[1].last_close_time) = 60
          /\ call.result[1]
       \/ /\ call.args[2] - Val(call.args[1].last_close_time) = 30
          /\ ~call.result[1]

-----------------------------------------------------------------------------
\* C11: for one continuous open position (from the exchange first reporting
\* it until the exchange reports none) the ladder of limit buys for rungs
\* 2..10 is set up at most once across all polls, whether the position was
\* opened by the engine or by hand.
LadderSetupOnce ==
    \A s \in settings.symbols : reported[s].setups <= 1

\* a fault-free poll that places the ladder a second time for a position the
\* exchange has reported open throughout
SecondLadderSetup ==
    /\ run.faulty = 0
    /\ poll.symbol = "A"
    /\ IsSome(poll.position_before)
    /\ OpenReports # {}
    /\ reported["A"].setups = 2
    /\ \E i \in CallsOf("create_limit_order") :
            poll.calls[i].side = "buy" /\ poll.calls[i].level = 2

\* C12: after every poll that ends with an open long position, order_level
\* is the rung that get_current_level_from_position infers from the
\* position's quantity and the cumulative table; and order_level is 0 when
\* the symbol is flat after closure handling.
EndsOpen ==
    /\ CallsOf("fetch_positions") # {}
    /\ ReportsOpen(poll.calls[MaxId(CallsOf("fetch_positions"))])
ClosureHandledNow(s) == symbol_states[s].last_close_time = Some(poll.time)

OrderLevelIsInferredRung ==
    \A s \in settings.symbols :
        poll.symbol = s =>
            /\ EndsOpen =>
                    symbol_states[s].order_level =
                        get_current_level_from_position(
                            symbol_states[s].cumulative_amounts,
                            poll.calls[MaxId(CallsOf("fetch_positions"))].amount)
            /\ (ClosureHandledNow(s) /\ ExchangeReportsNone) =>
                    symbol_states[s].order_level = 0

\* the entry poll ends at rung 1 of the table with order_level 10
LevelTenAtRungOne ==
    /\ run.faulty = 0
    /\ poll.symbol = "A"
    /\ EndsOpen
    /\ symbol_states["A"].cumulative_amounts # <<>>
    /\ get_current_level_from_position(
            symbol_states["A"].cumulative_amounts,
            poll.calls[MaxId(CallsOf("fetch_positions"))].amount) = 1
    /\ symbol_states["A"].order_level = 10

\* C13 (as amended): in a poll where a protective order id is recorded and
\* the exchange reports that order's status as closed, closure handling runs
\* in that poll: a cancel is attempted for every open order that
\* cancel_all_orders' open-orders query lists, the close time is the poll's
\* time, order_level is 0, the protective-order fields and the cumulative
\* table are cleared, the stored position is none and no order is placed.
StatusClosed ==
    \E i \in CallsOf("fetch_open_order") :
        poll.calls[i].ok /\ poll.calls[i].side = "closed"

FillHandled(s, all_cancelled) ==
    (poll.symbol = s /\ IsSome(poll.before.tp_order_id) /\ StatusClosed)
        => /\ all_cancelled
           /\ symbol_states[s].last_close_time = Some(poll.time)
           /\ symbol_states[s].order_level = 0
           /\ NoProtectiveOrder(symbol_states[s])
           /\ symbol_states[s].cumulative_amounts = <<>>
           /\ IsNone(symbol_states[s].current_position)
           /\ OrdersPlaced = {}

StatusQueryFails ==
    /\ IsSome(poll.before.tp_order_id)
    /\ Val(poll.before.tp_order_id) \notin poll.open_before \cup poll.filled_before

InferredFill ==
    \A s \in settings.symbols :
        (poll.symbol = s /\ StatusQueryFails /\ PositionAnswered /\ FirstQueryNone)
            => /\ ClosureHandledNow(s)
               /\ symbol_states[s].order_level = 0
               /\ NoProtectiveOrder(symbol_states[s])
               /\ symbol_states[s].cumulative_amounts = <<>>

\* a fault-free poll that finds no position, whose recorded protective order
\* is gone from the exchange, and that neither asks for the order's status
\* nor records a close
InferredFillMissed ==
    /\ run.faulty = 0
    /\ poll.symbol = "A"
    /\ StatusQueryFails
    /\ PositionAnswered /\ FirstQueryNone
    /\ CallsOf("fetch_open_order") = {}
    /\ IsNone(symbol_states["A"].last_close_time)
    /\ symbol_states["A"].is_first_entry

\* C15 (as amended): in a poll where the exchange reports no position but at
\* least one open order for the symbol, a cancel is attempted for every one
\* of those orders that cancel_all_orders' own open-orders query lists, a
\* failed cancel not stopping the others, and before any order of the poll
\* is submitted.
OrphanPoll(s) ==
    /\ poll.symbol = s
    /\ PositionAnswered /\ FirstQueryNone
    /\ poll.calls[MinId(CallsOf("fetch_open_orders"))].ok
    /\ poll.open_before # {}

CancelledBeforeOrders(id) ==
    \E i \in CallsOf("cancel_order") :
        poll.calls[i].id = id /\ \A j \in OrdersPlaced : i < j

-----------------------------------------------------------------------------
\* C16: with a protective order recorded whose price differs from the newly
\* selected price by at most 0.01 and whose tag is the selected one,
\* update_tp_order cancels nothing, places nothing and leaves the record
\* unchanged; it cancels and re-places only when the price differs by more
\* than 0.01, the tag differs, or no protective order price is recorded.
TpReissueOnlyOnChange ==
    call.fn = "update_tp_order on recorded" =>
        LET before == call.args[2]
            after  == call.result[1]
            calls  == call.result[2]
            target == (call.args[1] * 101) \div 100
            kept   == /\ IsSome(before.current_tp_price)
                      /\ Val(before.current_tp_price) - target <= PriceScale \div 100
                      /\ target - Val(before.current_tp_price) <= PriceScale \div 100
                      /\ before.current_tp_type = Some("profit")
        IN  /\ kept => (calls = <<>> /\ after = before /\ call.result[3] = {7})
            /\ ~kept => /\ Len(calls) = IF IsSome(before.tp_order_id) THEN 2 ELSE 1
                        /\ IsSome(before.tp_order_id) =>
                                (calls[1].op = "cancel_order" /\ calls[1].id = 7)
                        /\ calls[Len(calls)].op = "create_limit_order"
                        /\ calls[Len(calls)].side = "sell"
                        /\ calls[Len(calls)].price = target
                        /\ after.current_tp_price = Some(target)
                        /\ after.tp_order_id = Some(calls[Len(calls)].id)
                        /\ call.result[3] = {calls[Len(calls)].id}
                        /\ 7 \notin call.result[3]

\* the recorded price is exactly 0.01 from the target: nothing is done; and
\* one step further: the order is replaced
TpAtEpsilon ==
    /\ call.fn = "update_tp_order on recorded"
    /\ call.args[2].current_tp_type = Some("profit")
    /\ IsSome(call.args[2].current_tp_price)
    /\ \/ /\ Val(call.args[2].current_tp_price) = 101 * PriceScale + PriceScale \div 100
          /\ call.result[2] = <<>>
       \/ /\ Val(call.args[2].current_tp_price) = 101 * PriceScale + PriceScale \div 100 + 1
          /\ Len(call.result[2]) = 2

\* C17: for fixed level, price and symbol calculate_order_amount is
\* non-decreasing in total_balance, and for every input, balance 0 included,
\* its result is not below the market's minimum order amount.
OrderAmountMonotoneAboveMin ==
    call.fn = "calculate_order_amount" =>
        LET level  == call.args[1]
            price  == call.args[2]
            symbol == call.args[4]
            amount == call.result[2]
            mk     == MarketOf(symbol)
        IN  /\ \A b1 \in CallBalances :
                    b1 <= call.args[3] =>
                        AmtLE(calculate_order_amount(level, price, b1, symbol), amount)
            /\ (IsSome(mk) /\ Val(mk).min.kind = "value") => AmtLE(Val(mk).min.v, amount)

\* with balance 0 on a market whose minimum is 1 contract the result is 1,
\* and with balance 1001 at price 0.5 it is above the minimum
AmountAtAndAboveMinimum ==
    /\ call.fn = "calculate_order_amount"
    /\ MarketOf(call.args[4]) = Some(Market(1, PrecInt(0), MinValue(AmtInt(1))))
    /\ \/ call.args[3] = 0 /\ call.result[2] = AmtInt(1)
       \/ /\ call.args[3] = 1001 /\ call.args[2] = PriceScale \div 2
          /\ AmtLT(AmtInt(1), call.result[2])

\* C18: for any capital usage ratio r, calculate_levels gives a table of 10
\* rungs whose ratios are the base ratios times r/170 and sum to r (to the
\* precision ratios are held in, one unit of 1/RatioScale percent per rung),
\* and whose distances are the base distances 0, 1.5, 3, 5, 8, 12, 17, 23,
\* 30, 38.
LevelsRescaled ==
    call.fn = "calculate_levels" =>
        LET r         == call.args[1]
            table     == call.result[1]
            distances == <<0, 15, 30, 50, 80, 120, 170, 230, 300, 380>>
            ratios    == <<50, 50, 75, 100, 125, 150, 200, 250, 300, 400>>
            total     == SumRatio(table, 10)
        IN  /\ DOMAIN table = 1..10
            /\ \A n \in 1..10 :
                /\ table[n].distance * 10 = distances[n] * DistScale
                /\ table[n].ratio * 170 <= ratios[n] * r * (RatioScale \div 10)
                /\ table[n].ratio * 170 > ratios[n] * r * (RatioScale \div 10) - 170
            /\ total <= r * RatioScale
            /\ total >= r * RatioScale - 10

\* r = 340 doubles the base table: rung 10 holds 80 percent, the sum is 340
LevelsDoubled ==
    /\ call.fn = "calculate_levels"
    /\ call.args[1] = 340
    /\ call.result[1][10].ratio = 80 * RatioScale
    /\ call.result[1][10].distance = 38 * DistScale
    /\ SumRatio(call.result[1], 10) = 340 * RatioScale

\* C19: get_current_level_from_position returns rung 1 when the cumulative
\* table is empty; otherwise the rung whose cumulative amount is at the least
\* absolute difference from the position quantity, the lowest such rung on
\* ties, and the exactly matching rung on an exact match.
ClosestRung ==
    call.fn = "get_current_level_from_position" =>
        LET table  == call.args[1]
            amount == call.args[2]
            level  == call.result[1]
        IN  IF table = <<>> THEN level = 1
            ELSE /\ level \in DOMAIN table
                 /\ \A other \in DOMAIN table :
                        /\ AmtLE(AmtAbsDiff(amount, table[level]),
                                 AmtAbsDiff(amount, table[other]))
                        /\ AmtAbsDiff(amount, table[other]) = AmtAbsDiff(amount, table[level])
                                => level <= other
                 /\ (\E n \in DOMAIN table : table[n] = amount) => table[level] = amount

\* a quantity half-way between two rungs is put at the lower rung
TieGoesToLowerRung ==
    /\ call.fn = "get_current_level_from_position"
    /\ call.args[1] # <<>>
    /\ \E n \in 1..9 :
        /\ call.args[1][n] # call.args[1][n + 1]
        /\ AmtAbsDiff(call.args[2], call.args[1][n]) =
                AmtAbsDiff(call.args[2], call.args[1][n + 1])
        /\ call.result[1] = n

\* C20: for any entry price and balance the cumulative table built by
\* calculate_cumulative_amounts has entries for rungs 1..10 and is
\* non-decreasing: cum[1] <= cum[2] <= ... <= cum[10].
CumulativeTableNonDecreasing ==
    call.fn = "calculate_cumulative_amounts" =>
        LET cum == call.result[1]
        IN  /\ DOMAIN cum = 1..10
            /\ \A n \in 1..9 : AmtLE(cum[n], cum[n + 1])

\* a table of ten rungs that rises from rung 1 to rung 10, and the table of
\* balance 0, which rises by the minimum amount per rung
TableRises ==
    /\ call.fn = "calculate_cumulative_amounts"
    /\ DOMAIN call.result[1] = 1..10
    /\ AmtLT(call.result[1][1], call.result[1][10])
    /\ call.args[2] \in {0, 1000}

\* the quantities of the orders placed for rungs 1..n when the position was
\* opened at entry_price: rung 1 sized at entry_price, rung k at its ladder price
RECURSIVE LadderFilled(_, _, _, _)
LadderFilled(symbol, entry_price, total_balance, n) ==
    IF n = 0 THEN AmtZero
    ELSE Then(LadderFilled(symbol, entry_price, total_balance, n - 1), LAMBDA below :
            AmtAdd(below, calculate_order_amount(n, LadderPrice(entry_price, n),
                                                 total_balance, symbol)))

\* C21: for every rung n in 1..10, cum[n] equals the sum over k <= n of the
\* order size of rung k computed at that rung's own ladder price
\* entryPrice * (1 - distance_k / 100): the position size once the ladder
\* orders placed for rungs up to n have all filled.
CumulativeTableAtLadderPrices ==
    call.fn = "calculate_cumulative_amounts" =>
        \A n \in DOMAIN call.result[1] :
            call.result[1][n] = LadderFilled("A", call.args[1], call.args[2], n)

\* a table whose rung 10 is below what the filled ladder holds, every rung
\* having been sized at the entry price
TableBelowFilledLadder ==
    /\ call.fn = "calculate_cumulative_amounts"
    /\ call.args = <<100 * PriceScale, 1000>>
    /\ call.result[1][1] = LadderFilled("A", call.args[1], call.args[2], 1)
    /\ AmtLT(call.result[1][10], LadderFilled("A", call.args[1], call.args[2], 10))

\* the terminal state of closure handling at clock reading t
ResetAt(state, t) ==
    /\ state.order_level = 0
    /\ IsNone(state.tp_order_id)
    /\ IsNone(state.current_tp_price)
    /\ IsNone(state.current_tp_type)
    /\ state.cumulative_amounts = <<>>
    /\ ~state.is_first_entry
    /\ ~state.just_entered
    /\ state.last_close_time = Some(t)

PositionQueryFailed ==
    /\ CallsOf("fetch_positions") # {}
    /\ ~poll.calls[MinId(CallsOf("fetch_positions"))].ok

\* C24: if every attempt of the position query fails in a poll, that poll
\* cancels no orders, places no orders and leaves the symbol's state (level,
\* protective order, cumulative table, close time, first-entry flag, stored
\* previous position) unchanged.
FailedPositionQuerySkipsPoll ==
    \A s \in settings.symbols :
        (poll.symbol = s /\ PositionQueryFailed)
            => /\ CallsOf("cancel_order") = {}
               /\ OrdersPlaced = {}
               /\ symbol_states[s] = poll.before

\* a poll whose position query failed while the position was open: the
\* failure is taken for a close, the ladder is cancelled and the state reset
FailedQueryTakenForClose ==
    /\ poll.symbol = "A"
    /\ PositionQueryFailed
    /\ IsSome(poll.position_before)
    /\ IsSome(poll.before.current_position)
    /\ CancelledIds # {}
    /\ symbol_states["A"].last_close_time = Some(poll.time)
    /\ symbol_states["A"].order_level = 0
    /\ poll.before.order_level = 10
    /\ IsSome(exchange["A"].position)

\* the open sell orders of a symbol that are not the recorded protective order
OtherSells(s) ==
    {o \in exchange[s].orders :
        o.side = "sell" /\ symbol_states[s].tp_order_id # Some(o.id)}

\* C28: every sell order the engine submits is reduce-only and is the
\* protective order (or the emergency market close, which never rests on
\* the book): no sell can open or extend a short position and a market entry
\* leaves no other sell order behind.
SellsAreProtectiveReduceOnly ==
    \A s \in settings.symbols :
        /\ \A o \in exchange[s].orders : o.side = "sell" => o.reduce_only
        /\ (poll.symbol = s /\ MarketBuys # {}) => OtherSells(s) = {}

\* a market entry that leaves five sell limit orders that are not reduce-only
\* above the price, next to the reduce-only protective order
EntryLeavesOpenSells ==
    /\ poll.symbol = "A"
    /\ MarketBuys # {}
    /\ Cardinality({o \in OtherSells("A") : ~o.reduce_only}) = FollowupCount
    /\ \E o \in exchange["A"].orders :
            o.side = "sell" /\ o.reduce_only /\ symbol_states["A"].tp_order_id = Some(o.id)

\* the form holds a configuration that the start must refuse
InvalidConfig(config) ==
    \/ ~config.api_key
    \/ ~config.secret_key
    \/ (config.exchange = "okx" /\ ~config.password)
    \/ config.symbols = {}
    \/ config.donchian_activation_level \notin 1..10
    \/ ~config.connects
    \/ config.rejected # {}

\* C27: if the configuration is invalid (missing credentials, empty symbol
\* list, activation level outside 1..10, exchange connection failure, or a
\* symbol the exchange rejects), start reports the error to the host and the
\* trading loop thread is never started.
InvalidConfigNeverStarts ==
    (call.fn = "start_trading" /\ InvalidConfig(call.args[1]))
        => call.result[1].error /\ ~call.result[1].started

\* the loop is started without an error shown although the exchange rejected
\* one of the two symbols
StartedWithRejectedSymbol ==
    /\ call.fn = "start_trading"
    /\ call.args[1].symbols = {"A", "B"}
    /\ call.args[1].rejected = {"B"}
    /\ call.result[1].started
    /\ ~call.result[1].error
    /\ ~call.result[1].leverage_set["B"]

\* C23: a poll in which a call failed (ticker, position or order query,
\* order placement or cancellation) returns to the loop like any other, the
\* failure is not propagated, and the loop leaves the symbols of a cycle only
\* when every symbol has been processed or the stop flag is set.
FailuresIsolated ==
    [][/\ (run.pc = "poll" /\ run'.pc # "poll")
            => /\ run'.pc = "for"
               /\ run'.done = run.done \cup {run.symbol}
               /\ poll'.symbol = run.symbol
       /\ (run.pc = "for" /\ run'.pc \notin {"for", "poll"})
            => run.should_stop \/ run.done = settings.symbols]_vars

\* the second symbol of the cycle is processed, and enters, after a call of
\* the first symbol's poll failed
SecondSymbolAfterFailure ==
    /\ run.failed = {"A"}
    /\ run.done = {"A", "B"}
    /\ poll.symbol = "B"
    /\ MarketBuys # {}
    /\ ~run.should_stop

\* the steps of emergency_stop so far that ran operation op
StepsOf(op) == {i \in DOMAIN run.host.steps : run.host.steps[i].op = op}
StepSymbols(op) == {run.host.steps[i].symbol : i \in StepsOf(op)}

\* both position queries of a close step reported an open position
ReportedLong(step) ==
    Cardinality({i \in DOMAIN step.calls : ReportsOpen(step.calls[i])}) = 2
MarketSells(step) ==
    {i \in DOMAIN step.calls :
        step.calls[i].op = "create_market_order" /\ step.calls[i].side = "sell"}
StepFailed(step) == \E i \in DOMAIN step.calls : ~step.calls[i].ok

\* C25: emergency_stop attempts cancel-all for every configured symbol, then
\* a market-sell close for every symbol reported with an open long position,
\* and only then sets the stop flag; a failed cancel, position query or close
\* for one symbol prevents neither the remaining attempts nor the flag.
EmergencySweepThenFlag ==
    LET steps == run.host.steps
        swept == /\ StepSymbols("cancel_all_orders") = settings.symbols
                 /\ StepSymbols("close_all_positions") = settings.symbols
                 /\ Len(steps) = 2 * Cardinality(settings.symbols)
    IN  steps # <<>> =>
            /\ \A i \in StepsOf("close_all_positions"), j \in StepsOf("cancel_all_orders") :
                    j < i
            /\ \A i \in StepsOf("cancel_all_orders") :
                    \E k \in DOMAIN steps[i].calls : steps[i].calls[k].op = "fetch_open_orders"
            /\ \A i \in StepsOf("close_all_positions") :
                    /\ \E k \in DOMAIN steps[i].calls : steps[i].calls[k].op = "fetch_positions"
                    /\ ReportedLong(steps[i]) => MarketSells(steps[i]) # {}
            /\ StepsOf("close_all_positions") # {} =>
                    StepSymbols("cancel_all_orders") = settings.symbols
            /\ run.should_stop => swept /\ run.host.pc = "stopped"
            /\ run.host.pc \in {"flag", "stopped"} => swept
            /\ run.host.pc = "stopped" => run.should_stop

\* the sweep is through and the flag set although the close of the first
\* symbol failed: the second symbol's position was still sold at the market
SweepPastFailedClose ==
    /\ run.should_stop
    /\ Len(run.host.steps) = 4
    /\ run.host.steps[3].symbol = "A"
    /\ ReportedLong(run.host.steps[3])
    /\ StepFailed(run.host.steps[3])
    /\ run.host.steps[4].symbol = "B"
    /\ \E i \in MarketSells(run.host.steps[4]) : run.host.steps[4].calls[i].ok

\* C26: once the stop flag is set the loop begins no further process_symbol
\* call (the flag is read before each symbol and before each cycle), a call
\* in progress runs to its end, and run() eventually returns.
StopHonoured ==
    /\ [][/\ (run.should_stop /\ run.pc # "poll") => run'.pc # "poll"
          /\ (run.pc = "poll" /\ run'.pc # "poll")
                => run'.pc = "for" /\ poll'.symbol = run.symbol]_vars
    /\ (run.should_stop ~> run.pc = "returned")

\* run has returned after the flag was set in the middle of a cycle: the
\* first symbol was processed, the second no more
ReturnedMidCycle ==
    /\ run.pc = "returned"
    /\ run.should_stop
    /\ run.done = {"A"}
    /\ poll.symbol = "A"

\* C29: every write to a symbol's state is made by the trading loop's thread
\* during that symbol's own process_symbol step; the host thread, calling
\* stop or emergency_stop while the loop runs, writes no symbol state.
OnlyLoopWritesState ==
    \A i \in DOMAIN run.host.steps : ~run.host.steps[i].wrote

\* emergency_stop, on the host's thread, has written the close time, the
\* first-entry flag and the table of a symbol while the loop's thread was
\* inside process_symbol for the same symbol
HostWritesDuringPoll ==
    \E i \in DOMAIN run.host.steps :
        /\ run.host.steps[i].wrote
        /\ run.host.steps[i].in_poll
        /\ run.host.steps[i].op = "close_all_positions"
        /\ \E k \in MarketSells(run.host.steps[i]) : run.host.steps[i].calls[k].ok

\* C30: run() returns only after the stop flag has been set: an exception
\* raised in a cycle is caught, the loop sleeps 10 seconds and goes back to
\* the head of the while loop instead of ending.
RunEndsOnlyOnStop ==
    [][/\ (run'.pc = "returned" /\ run.pc # "returned")
            => run.should_stop /\ run.pc = "while"
       /\ run'.raised # run.raised => run'.pc = "backoff"
       /\ (run.pc = "backoff" /\ run'.pc # "backoff") => run'.pc = "while"]_vars

\* a new cycle has begun after an exception reached the handler of the loop
CycleAfterException ==
    /\ run.raised = 1
    /\ run.cycles = 2
    /\ run.pc = "poll"
    /\ ~run.should_stop
    /\ now = BackoffSeconds

\* C31: when the market metadata of the symbol is unavailable,
\* calculate_order_amount returns positionValue / price rounded to 8 decimal
\* places, or 0.001 if that is smaller: a positive quantity the caller can
\* place.
FallbackAmount ==
    (call.fn = "calculate_order_amount" /\ IsNone(MarketOf(call.args[4])))
        => LET quotient == RoundQ(call.result[1],
                                  call.args[2] * (ValueScale \div PriceScale), AmountDecimals)
           IN  /\ call.result[2] = AmtMax(quotient, DefaultMinAmount)
               /\ AmtLT(AmtZero, call.result[2])

\* without metadata: a quantity above 0.001 kept to the eighth decimal place
FallbackToEightDecimals ==
    /\ call.fn = "calculate_order_amount"
    /\ IsNone(MarketOf(call.args[4]))
    /\ AmtLT(DefaultMinAmount, call.result[2])
    /\ call.result[2].f % 10 # 0

\* the poll's ticker query, its first call, failed
TickerFailed ==
    /\ poll.calls # <<>>
    /\ poll.calls[1].op = "fetch_ticker"
    /\ ~poll.calls[1].ok

\* C32: if the ticker query fails for a symbol, that symbol's poll ends
\* before any position or order query: no order is placed or cancelled and
\* every field of the symbol's state is unchanged.
TickerFailureEndsPoll ==
    \A s \in settings.symbols :
        (poll.symbol = s /\ TickerFailed)
            => /\ Len(poll.calls) = 1
               /\ symbol_states[s] = poll.before
               /\ OrderIds(exchange[s].orders) \subseteq poll.open_before

\* a poll of an open position with its ladder placed ends at the failed
\* ticker query and leaves state and orders as they were
TickerFailedWhileLong ==
    /\ poll.symbol = "A"
    /\ TickerFailed
    /\ IsSome(poll.position_before)
    /\ poll.before.order_level = 10
    /\ IsSome(poll.before.tp_order_id)
    /\ symbol_states["A"] = poll.before
    /\ poll.open_before # {}
    /\ OrderIds(exchange["A"].orders) = poll.open_before

\* C33: if the balance query fails at the start of a cycle, fetch_balance
\* yields 0, the cycle goes on, and every symbol processed in that cycle is
\* given total balance 0: the balance is fetched once per cycle and the same
\* value is passed to every symbol.
FailedBalanceIsZero ==
    [][/\ (run.pc = "while" /\ run'.pc # "while" /\ run'.faulty # run.faulty)
            => run'.pc = "for" /\ run'.balance_failed /\ run'.total_balance = 0
       /\ run.pc \in {"for", "poll"} => run'.total_balance = run.total_balance
       /\ (run.pc = "poll" /\ run'.pc # "poll")
            => /\ poll'.total_balance = run.total_balance
               /\ run.balance_failed => poll'.total_balance = 0
               /\ run'.balance_failed = run.balance_failed]_vars

\* the second symbol of a cycle whose balance query failed enters with a
\* quantity computed from balance 0
SecondSymbolWithZeroBalance ==
    /\ run.balance_failed
    /\ run.done = {"A", "B"}
    /\ poll.symbol = "B"
    /\ poll.total_balance = 0
    /\ MarketBuys # {}

\* the market entry and the ladder orders of the poll
BuysPlaced == {i \in OrdersPlaced : poll.calls[i].side = "buy"}

\* C34: within one poll the orphan cleanup, the closure detection and the
\* fill detection of the protective order are through before any market
\* entry or ladder order is submitted, and a poll that detects a closure
\* submits no entry or ladder order at all.
ReconciliationFirst ==
    \A s \in settings.symbols :
        poll.symbol = s =>
            /\ \A i \in CallsOf("fetch_open_order"), j \in BuysPlaced : i < j
            /\ OrphanPoll(s) =>
                    /\ \E i \in CallsOf("fetch_open_orders") :
                            /\ i > MinId(CallsOf("fetch_open_orders"))
                            /\ \A j \in BuysPlaced : i < j
                    /\ CancelAllListed =>
                            \A id \in poll.open_before : CancelledBeforeOrders(id)
            /\ ((IsSome(poll.before.current_position) /\ FirstQueryNone)
                    \/ StatusClosed \/ ClosureHandledNow(s))
                    => BuysPlaced = {}

\* a poll that asks for the status of the recorded protective order, finds it
\* not filled, and then places the ladder for the position
StatusQueryThenLadder ==
    /\ poll.symbol = "A"
    /\ CallsOf("fetch_open_order") # {}
    /\ Cardinality(BuysPlaced) = max_level - 1
    /\ \A j \in BuysPlaced : MaxId(CallsOf("fetch_open_order")) < j

\* C35: whenever a poll ends with the exchange reporting an open long
\* position of the symbol, the engine has submitted the ladder limit buys
\* for rungs 2..10 for that position, in this poll or an earlier one, also
\* when its market buy was not confirmed by the 3 re-queries and the position
\* first appears on a later poll.
LadderForEveryPosition ==
    \A s \in settings.symbols :
        (poll.symbol = s /\ EndsOpen) => reported[s].setups >= 1

\* the position of the engine's own market buy, first reported one poll
\* later: the poll finds just_entered set, places no ladder, and the position
\* stays without a single buy order below it
UnconfirmedEntryWithoutLadder ==
    /\ poll.symbol = "A"
    /\ EndsOpen
    /\ PositionAnswered
    /\ poll.before.just_entered
    /\ poll.before.order_level = 1
    /\ reported["A"].setups = 0
    /\ BuysPlaced = {}
    /\ \A o \in exchange["A"].orders : o.side # "buy"
    /\ symbol_states["A"].order_level = 1

\* C36: after every poll that ends with an open long position and in which
\* every exchange call succeeds, the live protective order's quantity equals
\* the position's quantity, in particular after a ladder limit order has
\* filled and increased the position. Here: the poll that follows the fill
\* of a ladder buy leaves the recorded protective order at the position's
\* quantity.
ProtectiveQuantityAfterFill ==
    call.fn = "process_symbol after a ladder fill" =>
        LET filled == call.result[2]
            position == call.result[3]
            orders == call.result[4]
        IN  (IsSome(filled) /\ IsSome(position) /\ filled # call.result[1])
            => \A o \in orders : o.amount = Val(position).amount

\* at a price of 0.5 the fill moves the target price by less than 0.01: the
\* poll after the fill makes no failing call, cancels and places nothing, and
\* the recorded protective order still has the quantity of the market entry
ProtectiveQuantityStale ==
    /\ call.fn = "process_symbol after a ladder fill"
    /\ call.args[1] = PriceScale \div 2
    /\ IsSome(call.result[1])
    /\ IsSome(call.result[3])
    /\ call.result[3] = call.result[2]
    /\ AmtLT(Val(call.result[1]).amount, Val(call.result[3]).amount)
    /\ \A i \in DOMAIN call.result[5] :
            /\ call.result[5][i].ok
            /\ call.result[5][i].op \notin
                    {"cancel_order", "create_limit_order", "create_market_order"}
    /\ \E o \in call.result[4] : o.amount = Val(call.result[1]).amount

-----------------------------------------------------------------------------
(* The trading loop over a position that stays open: the polls go on for   *)
(* ever, nothing closes the position, and the recorded protective order    *)
(* may be cancelled on the exchange by hand                                *)
MaxCancels == 1         \* protective orders cancelled by hand in one run

InitLive ==
    /\ \E e \in Exchanges : settings = Settings(e, {"A"}, CapitalBase, MarketFor(e))
    /\ symbol_states = [s \in settings.symbols |-> InitialSymbolState]
    /\ \E p \in Prices : exchange = [s \in Symbols |-> Account(p)]
    /\ reported = [s \in Symbols |-> InitialReport]
    /\ now = 0
    /\ \E b \in Balances :
            run = [total_balance |-> b, done |-> {}, faulty |-> 0, cancelled |-> 0]
    /\ poll = NoPoll
    /\ call = NoCall

(* run: the cycle ends, the loop sleeps and fetches the balance again; the *)
(* clock of the model stops at the horizon, the cycles go on               *)
LiveCycle ==
    /\ IsNone(NextSymbol)
    /\ now' = IF now < MaxCycles * CycleSeconds THEN now + CycleSeconds ELSE now
    /\ \E b \in Balances : run' = [run EXCEPT !.total_balance = b, !.done = {}]
    /\ UNCHANGED <<settings, symbol_states, exchange, poll, reported, call>>

(* the exchange: the recorded protective order is cancelled by hand *)
ExternalCancelTp ==
    \E s \in settings.symbols :
        \E o \in exchange[s].orders :
            /\ run.cancelled < MaxCancels
            /\ Some(o.id) = symbol_states[s].tp_order_id
            /\ exchange' = [exchange EXCEPT ![s].orders = @ \ {o}]
            /\ run' = [run EXCEPT !.cancelled = @ + 1]
            /\ UNCHANGED <<settings, symbol_states, now, poll, reported, call>>

NextLive ==
    \/ ProcessSymbol
    \/ LiveCycle
    \/ ExternalCancelTp

\* run() polls every symbol in every cycle for as long as it is not stopped
SpecLive == InitLive /\ [][NextLive]_vars /\ WF_vars(ProcessSymbol) /\ WF_vars(LiveCycle)

\* C37: while a long position stays open and exchange calls eventually
\* succeed, a protective sell order is eventually live on the exchange for
\* the symbol, also after a failed placement and after the recorded
\* protective order was cancelled on the exchange without being filled.
ProtectiveLive(s) == \E o \in exchange[s].orders : o.side = "sell" /\ o.reduce_only

ProtectiveOrderEventuallyLive ==
    \A s \in {"A"} : IsSome(exchange[s].position) ~> ProtectiveLive(s)

\* no call has failed in the run; the recorded protective order was cancelled
\* by hand, and the poll after that found the position, asked for the order,
\* placed nothing and changed nothing in the symbol's state: the poll that
\* every later cycle repeats
CancelledOrderNeverReplaced ==
    /\ poll.symbol = "A"
    /\ run.faulty = 0
    /\ run.cancelled = 1
    /\ EndsOpen
    /\ IsSome(exchange["A"].position)
    /\ IsSome(symbol_states["A"].tp_order_id)
    /\ Val(symbol_states["A"].tp_order_id) \notin poll.open_before
    /\ symbol_states["A"] = poll.before
    /\ CallsOf("fetch_open_order") # {}
    /\ OrdersPlaced = {}
    /\ ~ProtectiveLive("A")

\* C38: with the trading loop running on its own thread, when emergency_stop
\* returns, every exchange call having succeeded, no symbol has an open
\* position or an open order of the engine, and the loop places no order
\* afterwards.
EmergencyReturned == run.host.pc = "stopped" /\ run.host.steps # <<>>
Flat(s) == IsNone(exchange[s].position) /\ exchange[s].orders = {}

EmergencyStopLeavesNothing ==
    [][/\ (run.host.pc = "flag" /\ EmergencyReturned' /\ run'.faulty = 0)
            => \A s \in settings.symbols : Flat(s)'
       /\ (EmergencyReturned /\ run.pc = "poll" /\ poll' # poll /\ run'.faulty = 0)
            => OrdersPlaced' = {}]_vars

\* emergency_stop has swept both symbols and set the flag, no call of the run
\* has failed, the loop has returned, and a symbol is left with the position
\* and the ladder of an entry the loop made during or after the sweep
EntryBesideEmergencyStop ==
    /\ EmergencyReturned
    /\ Len(run.host.steps) = 4
    /\ run.faulty = 0
    /\ run.pc = "returned"
    /\ \A i \in DOMAIN run.host.steps : ~StepFailed(run.host.steps[i])
    /\ \E s \in settings.symbols :
        /\ IsSome(exchange[s].position)
        /\ \E o \in exchange[s].orders : o.side = "buy"
        /\ poll.symbol = s
        /\ MarketBuys # {}

\* C39: after the engine has submitted an initial market buy for a symbol it
\* submits no second one until a position has been observed open and then
\* closed: at most one market entry of the engine is outstanding per symbol,
\* also when the re-queries after the first order show no position. Here: a
\* poll that starts with the position open on the exchange and with
\* order_level at 1 or more, as the entry left it, submits no market buy.
EntryOutstanding ==
    IsSome(poll.position_before) /\ poll.before.order_level >= 1

SingleMarketEntry ==
    \A s \in settings.symbols :
        (poll.symbol = s /\ EntryOutstanding) => MarketBuys = {}

\* the position of the first market buy is open and was never reported
\* closed; the poll buys at the market again and the position doubles
SecondMarketEntry ==
    /\ poll.symbol = "A"
    /\ EntryOutstanding
    /\ IsNone(poll.before.last_close_time)
    /\ \E i \in MarketBuys : poll.calls[i].ok
    /\ IsSome(exchange["A"].position)
    /\ AmtLT(Val(poll.position_before).amount, Val(exchange["A"].position).amount)

\* C40: process_symbol(s, balance) writes only symbol_states[s]: every field
\* of symbol_states[t] of every other symbol t is unchanged by the call, and
\* every order placed or cancelled during the call is an order of s, so that
\* the open orders and the position of t are unchanged too.
ProcessSymbolFrame ==
    [][(run.pc = "poll" /\ run'.pc # "poll")
        => \A t \in settings.symbols \ {run.symbol} :
            /\ symbol_states'[t] = symbol_states[t]
            /\ exchange'[t].orders = exchange[t].orders
            /\ exchange'[t].position = exchange[t].position
            /\ CancelledIds' \cap OrderIds(exchange[t].orders) = {}]_vars

\* symbol B has been polled, with orders cancelled and orders placed, beside
\* the open position, the ladder and the recorded protective order of A
PollBesideOpenSymbol ==
    /\ poll.symbol = "B"
    /\ OrdersPlaced # {}
    /\ CancelledIds # {}
    /\ IsSome(exchange["A"].position)
    /\ \E o \in exchange["A"].orders : o.side = "buy"
    /\ IsSome(symbol_states["A"].tp_order_id)
    /\ symbol_states["A"].order_level > 0
    /\ symbol_states["B"] # symbol_states["A"]

========================================================================
